---- MODULE Spec2Model ----
(***************************************************************************)
(* Tune Transformer: the chord-symbol engine of TuneTransformer.js and the *)
(* retuning pass of tune-transformer.qml (onRun).                          *)
(*                                                                         *)
(* A text is a sequence of one-character strings; the non-ASCII characters *)
(* of the grammar are written by name ("SHARP", "FLAT", "MINUS", "DEGREE", *)
(* "OSLASH", "DELTA", "INCREMENT").                                        *)
(***************************************************************************)
EXTENDS Integers, Sequences, FiniteSets, TLC

\* ------------------------------------------------------------------------
\* Text helpers (JavaScript String / RegExp primitives used by the parser)
\* ------------------------------------------------------------------------

Digits == {"0", "1", "2", "3", "4", "5", "6", "7", "8", "9"}

SharpChars == {"#", "SHARP"}

FlatChars == {"b", "FLAT"}

RootLetters == {"A", "B", "C", "D", "E", "F", "G", "a", "b", "c", "d", "e", "f", "g"}

BassLetters == {"A", "B", "C", "D", "E", "F", "G"}

\* symbol.substring(from): the text from 0-based index `from` to the end.
Substring(s, from) == SubSeq(s, from + 1, Len(s))

\* TRUE iff the literal lit occurs in s at 0-based index i.
MatchesAt(s, i, lit) ==
    /\ i + Len(lit) <= Len(s)
    /\ \A k \in 1..Len(lit) : s[i + k] = lit[k]

\* Length of the first literal of the ordered alternation lits that matches
\* at index i, 0 if none does (no literal is empty).
RECURSIVE FirstAlt(_, _, _)
FirstAlt(s, i, lits) ==
    IF lits = <<>> THEN 0
    ELSE IF MatchesAt(s, i, Head(lits)) THEN Len(Head(lits))
    ELSE FirstAlt(s, i, Tail(lits))

\* Length of the longest run of digits at index i: ([0-9]+) is greedy.
RECURSIVE DigitRun(_, _)
DigitRun(s, i) ==
    IF i < Len(s) /\ s[i + 1] \in Digits THEN 1 + DigitRun(s, i + 1) ELSE 0

\* 0-based index of the first occurrence of character c at or after i, -1 if none.
RECURSIVE IndexOf(_, _, _)
IndexOf(s, c, i) ==
    IF i >= Len(s) THEN -1
    ELSE IF s[i + 1] = c THEN i
    ELSE IndexOf(s, c, i + 1)

DigitValue(c) ==
    CASE c = "0" -> 0 [] c = "1" -> 1 [] c = "2" -> 2 [] c = "3" -> 3
      [] c = "4" -> 4 [] c = "5" -> 5 [] c = "6" -> 6 [] c = "7" -> 7
      [] c = "8" -> 8 [] c = "9" -> 9

\* parseInt of a non-empty digit string.
RECURSIVE parseInt(_)
parseInt(d) ==
    IF d = <<>> THEN 0
    ELSE 10 * parseInt(SubSeq(d, 1, Len(d) - 1)) + DigitValue(d[Len(d)])

\* ------------------------------------------------------------------------
\* Chord symbol parser
\* ------------------------------------------------------------------------

MajorTokens == << <<"M","a","j","o","r">>, <<"m","a","j","o","r">>, <<"M","a","j">>,
                  <<"m","a","j">>, <<"M","a">>, <<"m","a">>, <<"M">>, <<"j">> >>

MinorTokens == << <<"m","i","n","o","r">>, <<"m","i","n">>, <<"m","i">>, <<"m">>,
                  <<"-">>, <<"MINUS">> >>

DiminishedTokens == << <<"d","i","m">>, <<"o">>, <<"DEGREE">> >>

HalfdimTokens == << <<"OSLASH">>, <<"O">>, <<"0">> >>

AugmentedTokens == << <<"a","u","g">>, <<"+">> >>

TriangleTokens == << <<"t">>, <<"DELTA">>, <<"INCREMENT">>, <<"^">> >>

SixNineTokens == << <<"6","9">>, <<"6","-","9">>, <<"6","+","9">>, <<"6","/","9">> >>

DropTokens == << <<"d","r","o","p">>, <<"n","o">> >>

\* The empty chord specification {sus: [], add: [], drop: [], alter: []};
\* a field the JavaScript object lacks is "" / <<>> / FALSE here.
NoBass == [letter |-> "", sharp |-> FALSE, flat |-> FALSE]

EmptySpec ==
    [letter |-> "", sharp |-> FALSE, flat |-> FALSE,
     major |-> FALSE, minor |-> FALSE, diminished |-> FALSE, halfdim |-> FALSE,
     augmented |-> FALSE, triangle |-> FALSE,
     number |-> <<>>, sixnine |-> FALSE, majoralt |-> <<>>, alt |-> FALSE,
     sus |-> <<>>, add |-> <<>>, drop |-> <<>>, alter |-> <<>>,
     bass |-> NoBass]

\* doNum: the meaning of a number depends on where it stands.
doNum(result, token, inMiddle) ==
    IF token = <<"6", "9">> THEN [result EXCEPT !.sixnine = TRUE]
    ELSE IF inMiddle THEN [result EXCEPT !.add = Append(@, token)]
    ELSE [result EXCEPT !.number = token]

\* The quality alternation of frontStuff at index i: [kind, len], kind the
\* number of the alternative (1 major .. 6 triangle, 0 none).  The first
\* alternative that matches is taken.
FirstQuality(lens) ==
    IF \A k \in 1..Len(lens) : lens[k] = 0 THEN [kind |-> 0, len |-> 0]
    ELSE [kind |-> CHOOSE k \in 1..Len(lens) :
                      lens[k] > 0 /\ \A j \in 1..(k - 1) : lens[j] = 0,
          len |-> lens[CHOOSE k \in 1..Len(lens) :
                      lens[k] > 0 /\ \A j \in 1..(k - 1) : lens[j] = 0]]

QualityAt(s, i) ==
    FirstQuality(<< FirstAlt(s, i, MajorTokens), FirstAlt(s, i, MinorTokens),
                    FirstAlt(s, i, DiminishedTokens), FirstAlt(s, i, HalfdimTokens),
                    FirstAlt(s, i, AugmentedTokens), FirstAlt(s, i, TriangleTokens) >>)

\* The optional number that ends the front part: n digits from index i3.
FrontNumber(result, s, i3, n) ==
    [matched |-> TRUE,
     result |-> IF n > 0 THEN doNum(result, SubSeq(s, i3 + 1, i3 + n), FALSE) ELSE result,
     lastIndex |-> i3 + n]

\* The quality flags with the triangle alternative also setting major.
FrontQualityTriangleAsMajor(result, s, i2, q) ==
    FrontNumber([result EXCEPT !.major = q.kind \in {1, 6}, !.minor = q.kind = 2,
                               !.diminished = q.kind = 3, !.halfdim = q.kind = 4,
                               !.augmented = q.kind = 5, !.triangle = q.kind = 6],
                s, i2 + q.len, DigitRun(s, i2 + q.len))

\* The quality flags of tokens[4..9], then the number.
FrontQuality(result, s, i2, q) ==
    FrontNumber([result EXCEPT !.major = q.kind = 1, !.minor = q.kind = 2,
                               !.diminished = q.kind = 3, !.halfdim = q.kind = 4,
                               !.augmented = q.kind = 5, !.triangle = q.kind = 6],
                s, i2 + q.len, DigitRun(s, i2 + q.len))

\* frontStuff applied at the start of symbol: [matched, result, lastIndex].
\* Every part after the root letter is optional and greedy.
frontStuff(result, s) ==
    IF Len(s) = 0 \/ s[1] \notin RootLetters
    THEN [matched |-> FALSE, result |-> result, lastIndex |-> 0]
    ELSE
      LET hasSharp == Len(s) >= 2 /\ s[2] \in SharpChars
          i1 == IF hasSharp THEN 2 ELSE 1
          hasFlat == Len(s) > i1 /\ s[i1 + 1] \in FlatChars
          i2 == IF hasFlat THEN i1 + 1 ELSE i1
      IN FrontQuality([result EXCEPT !.letter = s[1], !.sharp = hasSharp,
                                     !.flat = hasFlat],
                      s, i2, QualityAt(s, i2))

\* One regex.exec of middleStuff at index i: [len, result].  len = 0 is the
\* empty alternative (nothing matched).  Alternatives are tried in order.
middleStuff(result, s, i) ==
    LET sn == FirstAlt(s, i, SixNineTokens)
        \* (?:Major|...|j)([0-9]+): the first token that digits follow
        majLens == { Len(MajorTokens[k]) : k \in
                       { k \in 1..Len(MajorTokens) :
                           /\ MatchesAt(s, i, MajorTokens[k])
                           /\ DigitRun(s, i + Len(MajorTokens[k])) > 0
                           /\ \A j \in 1..(k - 1) :
                                ~(MatchesAt(s, i, MajorTokens[j])
                                  /\ DigitRun(s, i + Len(MajorTokens[j])) > 0) } }
        mj == IF majLens = {} THEN 0 ELSE CHOOSE l \in majLens : TRUE
        isAlt == MatchesAt(s, i, <<"a","l","t">>)
        isSus == MatchesAt(s, i, <<"s","u","s">>)
        susDigit == isSus /\ i + 3 < Len(s) /\ s[i + 4] \in Digits
        isAdd == MatchesAt(s, i, <<"a","d","d">>) /\ DigitRun(s, i + 3) > 0
        dropLens == { Len(DropTokens[k]) : k \in
                       { k \in 1..Len(DropTokens) :
                           /\ MatchesAt(s, i, DropTokens[k])
                           /\ DigitRun(s, i + Len(DropTokens[k])) > 0 } }
        dr == IF dropLens = {} THEN 0 ELSE CHOOSE l \in dropLens : TRUE
        num == DigitRun(s, i)
        \* ([#])?([b])?([0-9]+) with backtracking over the optional parts
        hasSharp == i < Len(s) /\ s[i + 1] \in SharpChars
        a1 == IF hasSharp THEN i + 1 ELSE i
        hasFlat == a1 < Len(s) /\ s[a1 + 1] \in FlatChars
        a2 == IF hasFlat THEN a1 + 1 ELSE a1
        altNum == DigitRun(s, a2)
    IN  IF sn > 0 THEN [len |-> sn, result |-> [result EXCEPT !.sixnine = TRUE]]
        ELSE IF mj > 0 THEN
            LET d == DigitRun(s, i + mj)
            IN [len |-> mj + d,
                result |-> [result EXCEPT !.majoralt = SubSeq(s, i + mj + 1, i + mj + d)]]
        ELSE IF isAlt THEN [len |-> 3, result |-> [result EXCEPT !.alt = TRUE]]
        ELSE IF isSus THEN
            [len |-> IF susDigit THEN 4 ELSE 3,
             result |-> [result EXCEPT !.sus =
                            Append(@, IF susDigit THEN <<s[i + 4]>> ELSE <<"4">>)]]
        ELSE IF isAdd THEN
            LET d == DigitRun(s, i + 3)
            IN [len |-> 3 + d,
                result |-> [result EXCEPT !.add = Append(@, SubSeq(s, i + 4, i + 3 + d))]]
        ELSE IF dr > 0 THEN
            LET d == DigitRun(s, i + dr)
            IN [len |-> dr + d,
                result |-> [result EXCEPT !.drop = Append(@, SubSeq(s, i + dr + 1, i + dr + d))]]
        ELSE IF num > 0 THEN
            [len |-> num, result |-> doNum(result, SubSeq(s, i + 1, i + num), TRUE)]
        ELSE IF altNum > 0 THEN
            [len |-> (a2 - i) + altNum,
             result |-> [result EXCEPT !.alter =
                            Append(@, [sharp |-> hasSharp, flat |-> hasFlat,
                                       number |-> SubSeq(s, a2 + 1, a2 + altNum)])]]
        ELSE [len |-> 0, result |-> result]

\* The exec loop of parseMiddleStuff from lastIndex i: [result, charsConsumed];
\* MiddleStep is one turn of it, m what regex.exec found.
RECURSIVE MiddleLoop(_, _, _)
RECURSIVE MiddleStep(_, _, _, _)
MiddleStep(m, result, s, i) ==
    IF m.len = 0 THEN [result |-> result, charsConsumed |-> i]
    ELSE MiddleLoop(m.result, s, i + m.len)

MiddleLoop(result, s, i) == MiddleStep(middleStuff(result, s, i), result, s, i)

\* The return value of parseMiddleStuff, l the state the loop ended in.
MiddleReturn(l, symbol) ==
    [result |-> l.result, symbol |-> Substring(symbol, l.charsConsumed)]

\* parseMiddleStuff: charsConsumed stays undefined when nothing matched, and
\* substring(undefined) is the whole symbol.
parseMiddleStuff(result, symbol) == MiddleReturn(MiddleLoop(result, symbol, 0), symbol)

\* 0-based index of the first "/" followed by a bass letter, -1 if none:
\* the back regex is not anchored.
RECURSIVE FindBass(_, _)
FindBass(s, i) ==
    IF i + 1 >= Len(s) THEN -1
    ELSE IF s[i + 1] = "/" /\ s[i + 2] \in BassLetters THEN i
    ELSE FindBass(s, i + 1)

parseBackStuff(result, symbol) ==
    LET at == FindBass(symbol, 0)
    IN IF at < 0 THEN [result |-> result, symbol |-> <<>>]
       ELSE
         LET hasSharp == at + 2 < Len(symbol) /\ symbol[at + 3] \in SharpChars
             j == IF hasSharp THEN at + 3 ELSE at + 2
             hasFlat == j < Len(symbol) /\ symbol[j + 1] \in FlatChars
             lastIndex == IF hasFlat THEN j + 1 ELSE j
         IN [result |-> [result EXCEPT !.bass = [letter |-> symbol[at + 2],
                                                 sharp |-> hasSharp, flat |-> hasFlat]],
             symbol |-> Substring(symbol, lastIndex)]

\* The loop that moves every parenthesised substring to "extras":
\* [symbol, extras].  /\((.*?)\)/ takes the first "(" that a ")" follows and
\* the nearest such ")".
RECURSIVE ExtractExtras(_, _)
ExtractExtras(symbol, extras) ==
    LET open == IndexOf(symbol, "(", 0)
        close == IF open < 0 THEN -1 ELSE IndexOf(symbol, ")", open + 1)
    IN IF open < 0 \/ close < 0 THEN [symbol |-> symbol, extras |-> extras]
       ELSE ExtractExtras(SubSeq(symbol, 1, open) \o Substring(symbol, close + 1),
                          Append(extras, SubSeq(symbol, open + 2, close)))

RECURSIVE ParseExtras(_, _)
ParseExtras(result, extras) ==
    IF extras = <<>> THEN result
    ELSE ParseExtras(parseMiddleStuff(result, Head(extras)).result, Tail(extras))

\* A parser that gives up (returns the empty specification) when the middle
\* part left something over.
ParseAfterMiddleRejecting(mid) ==
    IF Len(mid.symbol) > 0 THEN EmptySpec ELSE mid.result

\* The back part, when the middle part left something over.
ParseAfterMiddle(mid) ==
    IF Len(mid.symbol) > 0 THEN parseBackStuff(mid.result, mid.symbol).result
    ELSE mid.result

\* The middle part of what the front part left over.
ParseAfterFront(symbol, front) ==
    ParseAfterMiddle(
        parseMiddleStuff(front.result,
                         IF front.matched THEN Substring(symbol, front.lastIndex)
                         ELSE symbol))

\* Front, middle and back of the symbol, then the extras.
ParseWithExtras(ex) ==
    ParseExtras(ParseAfterFront(ex.symbol, frontStuff(EmptySpec, ex.symbol)), ex.extras)

parseChordSymbol(fullSymbol) ==
    ParseWithExtras(
        ExtractExtras(IF Len(fullSymbol) >= 2 /\ fullSymbol[1] = "("
                         /\ fullSymbol[Len(fullSymbol)] = ")"
                      THEN SubSeq(fullSymbol, 2, Len(fullSymbol) - 1)
                      ELSE fullSymbol,
                      <<>>))

\* The chord symbol texts that occur in the scores and calls explored.
KnownTexts ==
    { <<"C">>, <<"D", "m", "7">>, <<"G">>, <<"/", "B">>, <<"F">> }

\* parseChordSymbol tabulated over KnownTexts (evaluated once); any other text
\* is parsed on the spot.
ParseMemo == [t \in KnownTexts |-> parseChordSymbol(t)]

Parsed(text) == IF text \in KnownTexts THEN ParseMemo[text] ELSE parseChordSymbol(text)

\* ------------------------------------------------------------------------
\* Pitch / interval utilities
\* ------------------------------------------------------------------------

toUpperCase(letter) ==
    CASE letter = "a" -> "A" [] letter = "b" -> "B" [] letter = "c" -> "C"
      [] letter = "d" -> "D" [] letter = "e" -> "E" [] letter = "f" -> "F"
      [] letter = "g" -> "G" [] OTHER -> letter

letterToSemi(letter) ==
    CASE letter = "C" -> 0 [] letter = "D" -> 2 [] letter = "E" -> 4
      [] letter = "F" -> 5 [] letter = "G" -> 7 [] letter = "A" -> 9
      [] letter = "B" -> 11

\* The interval above C of the letter/sharp/flat fields of spec.
letterToInterval(spec) ==
    LET r0 == letterToSemi(toUpperCase(spec.letter))
        r1 == IF spec.flat THEN r0 - 1 ELSE r0
        r2 == IF spec.sharp THEN r1 + 1 ELSE r1
        r3 == IF r2 > 11 THEN r2 - 12 ELSE r2
    IN IF r3 < 0 THEN r3 + 12 ELSE r3

letterToMidiNote(spec) == letterToInterval(spec) + 48

\* ------------------------------------------------------------------------
\* Chord expander
\* ------------------------------------------------------------------------

\* chordMap objects: functions from degree numbers to alterations.
Put(m, k, v) == [x \in (DOMAIN m) \cup {k} |-> IF x = k THEN v ELSE m[x]]

Delete(m, k) == [x \in (DOMAIN m) \ {k} |-> m[x]]

Has(m, k) == k \in DOMAIN m

RECURSIVE ApplyDrops(_, _)
ApplyDrops(result, drop) ==
    IF drop = <<>> THEN result
    ELSE ApplyDrops(Delete(result, parseInt(Head(drop))), Tail(drop))

\* The suspension loop without "delete result[3]".
RECURSIVE ApplySusKeepingThird(_, _)
ApplySusKeepingThird(result, sus) ==
    IF sus = <<>> THEN result
    ELSE ApplySusKeepingThird(Put(result, parseInt(Head(sus)), 0), Tail(sus))

RECURSIVE ApplySus(_, _)
ApplySus(result, sus) ==
    IF sus = <<>> THEN result
    ELSE ApplySus(Delete(Put(result, parseInt(Head(sus)), 0), 3), Tail(sus))

RECURSIVE ApplyAdds(_, _)
ApplyAdds(result, add) ==
    IF add = <<>> THEN result
    ELSE ApplyAdds(Put(result, parseInt(Head(add)), 0), Tail(add))

\* The alteration loop running from the last alteration to the first.
RECURSIVE ApplyAltersBackwards(_, _)
ApplyAltersBackwards(result, alter) ==
    IF alter = <<>> THEN result
    ELSE ApplyAltersBackwards(Put(result, parseInt(alter[Len(alter)].number),
                                  IF alter[Len(alter)].sharp THEN 1 ELSE -1),
                              SubSeq(alter, 1, Len(alter) - 1))

RECURSIVE ApplyAlters(_, _)
ApplyAlters(result, alter) ==
    IF alter = <<>> THEN result
    ELSE ApplyAlters(Put(result, parseInt(Head(alter).number),
                         IF Head(alter).sharp THEN 1 ELSE -1),
                     Tail(alter))

\* The seed triad and the default seventh of the quality.
SeedOf(chordSpec) ==
    IF chordSpec.minor THEN [result |-> (1 :> 0) @@ (3 :> -1) @@ (5 :> 0), seventh |-> -1]
    ELSE IF chordSpec.diminished
    THEN [result |-> (1 :> 0) @@ (3 :> -1) @@ (5 :> -1) @@ (7 :> -2), seventh |-> -2]
    ELSE IF chordSpec.halfdim
    THEN [result |-> (1 :> 0) @@ (3 :> -1) @@ (5 :> -1) @@ (7 :> -1), seventh |-> -1]
    ELSE IF chordSpec.augmented
    THEN [result |-> (1 :> 0) @@ (3 :> 0) @@ (5 :> 1), seventh |-> -1]
    ELSE [result |-> (1 :> 0) @@ (3 :> 0) @@ (5 :> 0),
          seventh |-> IF chordSpec.major THEN 0 ELSE -1]

\* The switch over chordSpec.number with a break after every case.
ApplyNumberWithoutFallThrough(result, number, seventh) ==
    IF number = <<"1", "3">> THEN Put(result, 13, 0)
    ELSE IF number = <<"1", "1">> THEN Put(result, 11, 0)
    ELSE IF number = <<"9">> THEN Put(result, 9, 0)
    ELSE IF number = <<"7">> THEN Put(result, 7, seventh)
    ELSE IF number = <<"6">> THEN Put(result, 6, 0)
    ELSE IF number = <<"5">> THEN Delete(result, 3)
    ELSE result

\* The switch over chordSpec.number, with its fall-through cases.
ApplyNumber(result, number, seventh) ==
    IF number = <<"1", "3">>
    THEN Put(Put(Put(Put(result, 13, 0), 11, 0), 9, 0), 7, seventh)
    ELSE IF number = <<"1", "1">> THEN Put(Put(Put(result, 11, 0), 9, 0), 7, seventh)
    ELSE IF number = <<"9">> THEN Put(Put(result, 9, 0), 7, seventh)
    ELSE IF number = <<"7">> THEN Put(result, 7, seventh)
    ELSE IF number = <<"6">> THEN Put(result, 6, 0)
    ELSE IF number = <<"5">> THEN Delete(result, 3)
    ELSE result

\* expandChordSpec: [chordMap, chordSpec]; chordSpec is the argument object
\* after the call (the majoralt branch assigns its number field).
expandChordSpec(chordSpec) ==
    LET seed == SeedOf(chordSpec)
        r1 == IF chordSpec.triangle THEN Put(seed.result, 7, 0) ELSE seed.result
        s1 == IF chordSpec.triangle THEN 0 ELSE seed.seventh
        r2 == IF chordSpec.sixnine THEN Put(Put(r1, 6, 0), 9, 0) ELSE r1
        r3 == ApplyDrops(r2, chordSpec.drop)
        s2 == IF chordSpec.majoralt # <<>> THEN 0 ELSE s1
        spec2 == IF chordSpec.majoralt # <<>>
                 THEN [chordSpec EXCEPT !.number = chordSpec.majoralt]
                 ELSE chordSpec
        r4 == IF spec2.number # <<>> THEN ApplyNumber(r3, spec2.number, s2) ELSE r3
        r5 == ApplySus(r4, chordSpec.sus)
        r6 == ApplyAdds(r5, chordSpec.add)
        r7 == IF chordSpec.alt THEN Put(Put(Put(r6, 7, -1), 5, 1), 9, 1) ELSE r6
    IN [chordMap |-> ApplyAlters(r7, chordSpec.alter), chordSpec |-> spec2]

\* expandChordSpec(parseChordSymbol(text)), tabulated over KnownTexts.
ExpandMemo == [t \in KnownTexts |-> expandChordSpec(ParseMemo[t])]

Expanded(text) ==
    IF text \in KnownTexts THEN ExpandMemo[text] ELSE expandChordSpec(parseChordSymbol(text))

\* ------------------------------------------------------------------------
\* Renderer
\* ------------------------------------------------------------------------

\* The value of an arithmetic expression with an undefined operand.
NaN == -1000000

Plus(a, b) == IF a = NaN \/ b = NaN THEN NaN ELSE a + b

Min(S) == CHOOSE x \in S : \A y \in S : x <= y

\* The keys of a chordMap in for-in order (integer keys ascending).
RECURSIVE Keys(_)
Keys(S) == IF S = {} THEN <<>> ELSE <<Min(S)>> \o Keys(S \ {Min(S)})

notesemitones(i) ==
    CASE i = 1 -> 0 [] i = 2 -> 2 [] i = 3 -> 4 [] i = 4 -> 5 [] i = 5 -> 7
      [] i = 6 -> 9 [] i = 7 -> 11 [] i = 8 -> 12 [] i = 9 -> 14 [] i = 10 -> 16
      [] i = 11 -> 17 [] i = 12 -> 19 [] i = 13 -> 21 [] OTHER -> NaN

\* render taking root C for every specification without a letter.
renderRootlessOnC(chordMap, chordSpec, lastChordSpec) ==
    LET spec2 == IF chordSpec.letter = ""
                 THEN [chordSpec EXCEPT !.letter = "C", !.sharp = FALSE, !.flat = FALSE]
                 ELSE chordSpec
        tonicMidiNote == letterToMidiNote(spec2)
        keys == Keys(DOMAIN chordMap)
    IN [midiNotes |-> [k \in 1..Len(keys) |->
                          Plus(Plus(tonicMidiNote, notesemitones(keys[k])), chordMap[keys[k]])],
        chordSpec |-> spec2,
        lastChordSpec |-> <<spec2>>]

\* render: [midiNotes, chordSpec, lastChordSpec].  lastChordSpec is the static
\* render.lastChordSpec: <<>> while unset, else <<the remembered specification>>.
render(chordMap, chordSpec, lastChordSpec) ==
    LET prevSpec == IF lastChordSpec = <<>> THEN [EmptySpec EXCEPT !.letter = "C"]
                    ELSE lastChordSpec[1]
        spec2 == IF chordSpec.letter = ""
                 THEN [chordSpec EXCEPT !.letter = prevSpec.letter,
                                        !.sharp = prevSpec.sharp,
                                        !.flat = prevSpec.flat]
                 ELSE chordSpec
        tonicMidiNote == letterToMidiNote(spec2)
        keys == Keys(DOMAIN chordMap)
    IN [midiNotes |-> [k \in 1..Len(keys) |->
                          Plus(Plus(tonicMidiNote, notesemitones(keys[k])), chordMap[keys[k]])],
        chordSpec |-> spec2,
        lastChordSpec |-> <<spec2>>]

\* prune: delete items until the chordMap has at most maxLength notes.
RECURSIVE prune(_, _)
prune(maxLength, chordMap) ==
    IF Cardinality(DOMAIN chordMap) <= maxLength THEN chordMap
    ELSE IF Has(chordMap, 1) THEN prune(maxLength, Delete(chordMap, 1))
    ELSE IF Has(chordMap, 5) /\ chordMap[5] = 0 THEN prune(maxLength, Delete(chordMap, 5))
    ELSE LET indices == Keys(DOMAIN chordMap)
         IN prune(maxLength, Delete(chordMap, indices[Len(indices) - 1]))

numNotesAboveThreshold(midiNotes, threshold) ==
    Cardinality({i \in 1..Len(midiNotes) : midiNotes[i] > threshold})

\* midiNotes.sort(compare) for a list of numbers.
RECURSIVE Sort(_)
Sort(q) ==
    IF q = <<>> THEN <<>>
    ELSE LET i == CHOOSE i \in 1..Len(q) : \A j \in 1..Len(q) : q[i] <= q[j]
         IN <<q[i]>> \o Sort(SubSeq(q, 1, i - 1) \o SubSeq(q, i + 1, Len(q)))

RECURSIVE RaiseLowest(_, _)
RaiseLowest(midiNotes, threshold) ==
    IF numNotesAboveThreshold(midiNotes, threshold) >= 1 THEN midiNotes
    ELSE RaiseLowest(Sort([midiNotes EXCEPT ![1] = @ + 12]), threshold)

RECURSIVE LowerHighest(_, _)
LowerHighest(midiNotes, threshold) ==
    IF numNotesAboveThreshold(midiNotes, threshold) <= 1 THEN midiNotes
    ELSE LowerHighest(Sort([midiNotes EXCEPT ![Len(midiNotes)] = @ - 12]), threshold)

InversionThreshold(root) ==
    CASE root = 0 -> 60 [] root = 1 -> 61 [] root = 2 -> 62 [] root = 3 -> 62
      [] root = 4 -> 63 [] root = 5 -> 60 [] root = 6 -> 62 [] root = 7 -> 61
      [] root = 8 -> 60 [] root = 9 -> 62 [] root = 10 -> 62 [] root = 11 -> 62

\* findOptimumInversion, for a non-empty list of numbers (condensed mode only;
\* the retuning pass always asks for raw notes).
findOptimumInversion(midiNotes, chordSpec) ==
    LET threshold == InversionThreshold(letterToInterval(chordSpec))
    IN IF midiNotes = <<>> \/ \E i \in 1..Len(midiNotes) : midiNotes[i] = NaN
       THEN midiNotes
       ELSE IF numNotesAboveThreshold(midiNotes, threshold) = 0
       THEN RaiseLowest(midiNotes, threshold)
       ELSE IF numNotesAboveThreshold(midiNotes, threshold) = 1 THEN midiNotes
       ELSE LowerHighest(midiNotes, threshold)

\* addBass putting the bass note in front whatever the first note is.
addBassAlwaysPrepended(chordSpec, midiNotes) ==
    LET b0 == letterToMidiNote(IF chordSpec.bass.letter # "" THEN chordSpec.bass
                               ELSE chordSpec)
        bassNote == IF b0 >= 52 THEN b0 - 12 ELSE b0
    IN <<bassNote>> \o midiNotes

\* addBass: the bass note of the specification, put in front unless it is
\* already the first note.
addBass(chordSpec, midiNotes) ==
    LET b0 == letterToMidiNote(IF chordSpec.bass.letter # "" THEN chordSpec.bass
                               ELSE chordSpec)
        bassNote == IF b0 >= 52 THEN b0 - 12 ELSE b0
    IN IF midiNotes # <<>> /\ bassNote = midiNotes[1] THEN midiNotes
       ELSE <<bassNote>> \o midiNotes

\* The last two steps of chordTextToMidiNotes, r what render returned.
VoiceChord(r, raw) ==
    [midiNotes |-> addBass(r.chordSpec,
                           IF raw THEN r.midiNotes
                           ELSE findOptimumInversion(r.midiNotes, r.chordSpec)),
     lastChordSpec |-> r.lastChordSpec]

\* prune and render, ex what expandChordSpec returned.
RenderChord(ex, raw, lastChordSpec) ==
    VoiceChord(render(IF raw THEN ex.chordMap ELSE prune(4, ex.chordMap),
                      ex.chordSpec, lastChordSpec),
               raw)

\* chordTextToMidiNotes: [midiNotes, lastChordSpec].
chordTextToMidiNotes(text, raw, lastChordSpec) ==
    RenderChord(Expanded(text), raw, lastChordSpec)

\* ------------------------------------------------------------------------
\* Scale deriver
\* ------------------------------------------------------------------------

\* A chord symbol that is null (no governing chord).
null == <<"NULL">>

majorScale ==
    (1 :> 0) @@ (2 :> 0) @@ (3 :> 0) @@ (4 :> 0) @@ (5 :> 0) @@ (6 :> 0) @@ (7 :> 0)

naturalMinorScale ==
    (1 :> 0) @@ (2 :> 0) @@ (3 :> -1) @@ (4 :> 0) @@ (5 :> 0) @@ (6 :> -1) @@ (7 :> -1)

wholeHalfDiminishedScale ==
    (1 :> 0) @@ (2 :> 0) @@ (3 :> -1) @@ (4 :> 0) @@ (5 :> -1) @@ (6 :> -1)
      @@ (7 :> -2) @@ (8 :> -1)

locrianSharp2Scale ==
    (1 :> 0) @@ (2 :> 0) @@ (3 :> -1) @@ (4 :> 0) @@ (5 :> -1) @@ (6 :> -1) @@ (7 :> -1)

wholeToneScale ==
    (1 :> 0) @@ (2 :> 0) @@ (3 :> 0) @@ (4 :> 1) @@ (5 :> 1) @@ (6 :> 1)

\* chordSpec.halfDiminished: a property no chord specification has (the
\* parser names its flag halfdim), so the read yields undefined.
halfDiminished(chordSpec) == FALSE

\* The choice of scale with the augmented branch misspelt as well, so that
\* augmented chords fall through to the major scale.
scaleToUseWithoutAugmented(chordSpec) ==
    IF chordSpec.major THEN majorScale
    ELSE IF chordSpec.minor THEN naturalMinorScale
    ELSE IF chordSpec.diminished THEN wholeHalfDiminishedScale
    ELSE majorScale

scaleToUse(chordSpec) ==
    IF chordSpec.major THEN majorScale
    ELSE IF chordSpec.minor THEN naturalMinorScale
    ELSE IF chordSpec.diminished THEN wholeHalfDiminishedScale
    ELSE IF halfDiminished(chordSpec) THEN locrianSharp2Scale
    ELSE IF chordSpec.augmented THEN wholeToneScale
    ELSE majorScale

\* The loop over scale degrees 1..7 without the test of scaleDegree + 7.
RECURSIVE FillScaleIgnoringOctave(_, _, _)
FillScaleIgnoringOctave(chordMap, scale, scaleDegree) ==
    IF scaleDegree > 7 THEN chordMap
    ELSE IF ~Has(chordMap, scaleDegree) /\ Has(scale, scaleDegree)
    THEN FillScaleIgnoringOctave(Put(chordMap, scaleDegree, scale[scaleDegree]), scale,
                                 scaleDegree + 1)
    ELSE FillScaleIgnoringOctave(chordMap, scale, scaleDegree + 1)

\* The loop over scale degrees 1..7, from degree scaleDegree on.
RECURSIVE FillScale(_, _, _)
FillScale(chordMap, scale, scaleDegree) ==
    IF scaleDegree > 7 THEN chordMap
    ELSE IF ~Has(chordMap, scaleDegree) /\ ~Has(chordMap, scaleDegree + 7)
            /\ Has(scale, scaleDegree)
    THEN FillScale(Put(chordMap, scaleDegree, scale[scaleDegree]), scale, scaleDegree + 1)
    ELSE FillScale(chordMap, scale, scaleDegree + 1)

\* The special case after the loop, leaving alone an eighth degree that is
\* already in the chordMap.
AddEighthIfAbsent(filled, scale) ==
    IF Has(scale, 8) /\ ~Has(filled, 8) THEN Put(filled, 8, scale[8]) ELSE filled

\* The special case after the loop: the eighth degree of the scale, if any.
AddEighth(filled, scale) == IF Has(scale, 8) THEN Put(filled, 8, scale[8]) ELSE filled

\* The chordMap of the scale that getScaleForChord renders.
scaleMap(chordSpec) ==
    AddEighth(FillScale(expandChordSpec(chordSpec).chordMap, scaleToUse(chordSpec), 1),
              scaleToUse(chordSpec))

\* scaleMap(parseChordSymbol(text)), tabulated over KnownTexts.
ScaleMemo == [t \in KnownTexts |-> scaleMap(ParseMemo[t])]

ScaleMapOf(text) ==
    IF text \in KnownTexts THEN ScaleMemo[text] ELSE scaleMap(parseChordSymbol(text))

\* The end of getScaleForChord without the call of addBass.
ScaleNotesWithoutBass(r) ==
    [midiNotes |-> r.midiNotes, lastChordSpec |-> r.lastChordSpec]

\* The end of getScaleForChord, r what render returned.
ScaleNotes(r) ==
    [midiNotes |-> addBass(r.chordSpec, r.midiNotes), lastChordSpec |-> r.lastChordSpec]

\* getScaleForChord: [midiNotes, lastChordSpec].
getScaleForChord(chord, lastChordSpec) ==
    IF chord = null THEN [midiNotes |-> <<>>, lastChordSpec |-> lastChordSpec]
    ELSE ScaleNotes(render(ScaleMapOf(chord), Expanded(chord).chordSpec, lastChordSpec))

\* ------------------------------------------------------------------------
\* Snap and tie propagation
\* ------------------------------------------------------------------------

pitchToTpc(pitch) ==
    LET pc == pitch % 12
    IN CASE pc = 0 -> 14 [] pc = 1 -> 21 [] pc = 2 -> 16 [] pc = 3 -> 11
         [] pc = 4 -> 18 [] pc = 5 -> 13 [] pc = 6 -> 20 [] pc = 7 -> 15
         [] pc = 8 -> 22 [] pc = 9 -> 17 [] pc = 10 -> 12 [] pc = 11 -> 19

\* alterPitchOfNote on the pitch fields of a note.
alterPitchOfNote(note, newPitch) ==
    LET tpcDifference == note.tpc2 - note.tpc1
    IN [note EXCEPT !.pitch = newPitch,
                    !.tpc1 = pitchToTpc(newPitch),
                    !.tpc2 = pitchToTpc(newPitch) + tpcDifference]

Abs(x) == IF x < 0 THEN -x ELSE x

\* Math.abs(a) < Math.abs(b); a comparison with NaN is false.
AbsLess(a, b) == a # NaN /\ b # NaN /\ Abs(a) < Abs(b)

\* The intervals array of snapNoteToNearestChordTone: for each chord tone the
\* ascending interval, then the descending one.
chordIntervals(chordTones, pitch) ==
    [k \in 1..(2 * Len(chordTones)) |->
        LET tone == chordTones[(k + 1) \div 2]
            up == IF tone = NaN THEN NaN ELSE (tone - pitch + 1200) % 12
        IN IF k % 2 = 1 THEN up ELSE Plus(up, -12)]

\* The scan for the smallest interval: from index i on, with the best so far.
RECURSIVE chordSmallest(_, _, _)
chordSmallest(intervals, i, smallestInterval) ==
    IF i > Len(intervals) THEN smallestInterval
    ELSE chordSmallest(intervals, i + 1,
                       IF AbsLess(intervals[i], smallestInterval) THEN intervals[i]
                       ELSE smallestInterval)

\* snapNoteToNearestChordTone after the call of chordTextToMidiNotes, t what
\* that call returned.
SnapToChordTones(note, t) ==
    LET intervals == chordIntervals(t.midiNotes, note.pitch)
        smallestInterval == chordSmallest(intervals, 2, intervals[1])
    IN [note |-> alterPitchOfNote(note, note.pitch + smallestInterval),
        lastChordSpec |-> t.lastChordSpec,
        chordTones |-> t.midiNotes]

\* snapNoteToNearestChordTone with the interval subtracted instead of added.
snapChordToneAwayFromTone(note, chord, lastChordSpec) ==
    IF chord = null
    THEN [note |-> note, lastChordSpec |-> lastChordSpec, chordTones |-> <<>>]
    ELSE LET t == chordTextToMidiNotes(chord, TRUE, lastChordSpec)
             intervals == chordIntervals(t.midiNotes, note.pitch)
             smallestInterval == chordSmallest(intervals, 2, intervals[1])
         IN [note |-> alterPitchOfNote(note, note.pitch - smallestInterval),
             lastChordSpec |-> t.lastChordSpec,
             chordTones |-> t.midiNotes]

\* snapNoteToNearestChordTone asking for the condensed voicing (raw = false).
snapChordToneCondensed(note, chord, lastChordSpec) ==
    IF chord = null
    THEN [note |-> note, lastChordSpec |-> lastChordSpec, chordTones |-> <<>>]
    ELSE LET t == chordTextToMidiNotes(chord, FALSE, lastChordSpec)
             intervals == chordIntervals(t.midiNotes, note.pitch)
             smallestInterval == chordSmallest(intervals, 2, intervals[1])
         IN [note |-> alterPitchOfNote(note, note.pitch + smallestInterval),
             lastChordSpec |-> t.lastChordSpec,
             chordTones |-> t.midiNotes]

\* snapNoteToNearestChordTone: [note, lastChordSpec, chordTones]; chordTones is
\* the local array of that name, <<>> when the function returns at once.
snapNoteToNearestChordTone(note, chord, lastChordSpec) ==
    IF chord = null
    THEN [note |-> note, lastChordSpec |-> lastChordSpec, chordTones |-> <<>>]
    ELSE SnapToChordTones(note, chordTextToMidiNotes(chord, TRUE, lastChordSpec))

\* The intervals array of snapNoteToNearestScaleTone.
scaleIntervals(scaleTones, pitch) ==
    [k \in 1..(2 * Len(scaleTones)) |->
        LET tone == scaleTones[(k + 1) \div 2]
            up == IF tone = NaN THEN NaN ELSE (tone - pitch + 1200) % 12
        IN IF k % 2 = 1 THEN up ELSE Plus(up, -12)]

\* The scan keeping the last of several equally small intervals (<= for <).
RECURSIVE scaleSmallestLastWins(_, _, _)
scaleSmallestLastWins(intervals, i, smallestInterval) ==
    IF i > Len(intervals) THEN smallestInterval
    ELSE scaleSmallestLastWins(intervals, i + 1,
                       IF ~AbsLess(smallestInterval, intervals[i]) THEN intervals[i]
                       ELSE smallestInterval)

RECURSIVE scaleSmallest(_, _, _)
scaleSmallest(intervals, i, smallestInterval) ==
    IF i > Len(intervals) THEN smallestInterval
    ELSE scaleSmallest(intervals, i + 1,
                       IF AbsLess(intervals[i], smallestInterval) THEN intervals[i]
                       ELSE smallestInterval)

\* snapNoteToNearestScaleTone without the check for an empty array:
\* intervals[0] is undefined and the new pitch is NaN.
snapScaleToneWithoutEmptyCheck(note, scaleTones) ==
    LET intervals == scaleIntervals(scaleTones, note.pitch)
        smallestInterval == IF Len(scaleTones) = 0 THEN NaN
                            ELSE scaleSmallest(intervals, 2, intervals[1])
    IN alterPitchOfNote(note, Plus(note.pitch, smallestInterval))

\* snapNoteToNearestScaleTone: the note after the call.
snapNoteToNearestScaleTone(note, scaleTones) ==
    IF Len(scaleTones) = 0 THEN note
    ELSE LET intervals == scaleIntervals(scaleTones, note.pitch)
             smallestInterval == scaleSmallest(intervals, 2, intervals[1])
         IN alterPitchOfNote(note, note.pitch + smallestInterval)

wholeNoteDurationInTicks == 1920

\* isSegmentOnStrongBeat dividing the whole note by the numerator.
isSegmentOnStrongBeatByNumerator(segment) ==
    LET beatDuration == wholeNoteDurationInTicks \div segment.numerator
        delta == segment.tick - segment.start
    IN (delta % beatDuration) = 0

\* isSegmentOnStrongBeat for a segment [tick, start, numerator, denominator]:
\* start is measure.firstSegment.tick, the time signature is measure.timesigActual.
\* The division is exact for the denominators explored (they divide 1920).
isSegmentOnStrongBeat(segment) ==
    LET beatDuration == wholeNoteDurationInTicks \div segment.denominator
        delta == segment.tick - segment.start
    IN (delta % beatDuration) = 0

\* isNoteTheLastNoteInTieChain: tieBack / tieForward hold the id of the tied
\* note, 0 when there is no tie.
isNoteTheLastNoteInTieChain(note) == note.tieBack # 0 /\ note.tieForward = 0

\* repitchEarlierNotesInTieChain stopping after the first earlier note.
repitchPreviousNoteOnly(ns, currentNote, from) ==
    IF ns[currentNote].tieBack = 0 THEN ns
    ELSE LET prev == ns[currentNote].tieBack
         IN [ns EXCEPT ![prev].pitch = ns[from].pitch,
                       ![prev].tpc1 = ns[from].tpc1,
                       ![prev].tpc2 = ns[from].tpc2]

\* repitchEarlierNotesInTieChain: the note store after the walk that starts
\* at currentNote and copies the pitch fields of note `from`.
RECURSIVE repitchEarlierNotesInTieChain(_, _, _)
repitchEarlierNotesInTieChain(ns, currentNote, from) ==
    IF ns[currentNote].tieBack = 0 THEN ns
    ELSE LET prev == ns[currentNote].tieBack
         IN repitchEarlierNotesInTieChain(
                [ns EXCEPT ![prev].pitch = ns[from].pitch,
                           ![prev].tpc1 = ns[from].tpc1,
                           ![prev].tpc2 = ns[from].tpc2],
                prev, from)

\* ------------------------------------------------------------------------
\* The score handed to the plugin by the host
\* ------------------------------------------------------------------------

\* Number of segments of the scores explored.
NumSegments == 3

numVoices == 4

Harmony(text) == [name |-> "Harmony", text |-> text]

StaffText(text) == [name |-> "StaffText", text |-> text]

\* What a segment can carry as annotations.
AnnotationChoices ==
    { <<>>,
      <<Harmony(<<"D", "m", "7">>)>>,
      <<Harmony(<<"D", "m", "7">>), Harmony(<<"N", ".", "C", ".">>)>>,
      <<StaffText(<<"F">>), Harmony(<<"N", ".", "C", ".">>), Harmony(<<"G">>),
        Harmony(<<"/", "B">>)>> }

\* What a segment can carry as elements.  "rest": a rest in the first voice;
\* "tied": a one-note chord there, tied to the first note of the next
\* segment's chord; "chord": a two-note chord in the first voice and a
\* one-note chord on track 5 (second staff, second voice), none tied forward.
Layouts == {"rest", "tied", "chord"}

HasFirstNote(layout) == layout # "rest"

IsTied(layout) == layout = "tied"

\* Staves, time signature, transposition (tpc2 - tpc1) and the pitch of the
\* first-voice melody of a score.
Frames ==
    { [nstaves |-> 2, numerator |-> 4, denominator |-> 4, transposition |-> 0, base |-> 61],
      [nstaves |-> 1, numerator |-> 3, denominator |-> 8, transposition |-> 2, base |-> 66] }

\* The scores explored: a frame and, per segment, annotations and a layout;
\* a tie needs a first note in the next segment.
Scores ==
    [frame : Frames,
     annot : [1..NumSegments -> AnnotationChoices],
     layout : { l \in [1..NumSegments -> Layouts] :
                  \A seg \in 1..NumSegments :
                     IsTied(l[seg]) => (seg < NumSegments /\ HasFirstNote(l[seg + 1])) }]

\* Note ids: three per segment, for (track 0, note 0), (track 0, note 1),
\* (track 5, note 0).
NoteId(seg, k) == (seg - 1) * 3 + k

SegOf(id) == ((id - 1) \div 3) + 1

KOf(id) == ((id - 1) % 3) + 1

\* The spelling the host gave a note (flats for the black keys used here).
HostTpc(pitch) ==
    LET pc == pitch % 12
    IN IF pc = 1 THEN 9 ELSE IF pc = 6 THEN 8 ELSE IF pc = 10 THEN 12
       ELSE pitchToTpc(pitch)

MeasureTicks(frame) == (frame.numerator * wholeNoteDurationInTicks) \div frame.denominator

\* The segment object: its tick, measure.firstSegment.tick, measure.timesigActual.
SegmentOf(sc, seg) ==
    LET tick == (seg - 1) * 240
    IN [tick |-> tick,
        start |-> (tick \div MeasureTicks(sc.frame)) * MeasureTicks(sc.frame),
        numerator |-> sc.frame.numerator,
        denominator |-> sc.frame.denominator]

\* segment.elementAt(track)
elementAt(sc, seg, track) ==
    IF track = 0 THEN
        IF sc.layout[seg] = "rest" THEN [type |-> "REST", notes |-> <<>>]
        ELSE IF sc.layout[seg] = "chord"
        THEN [type |-> "CHORD", notes |-> <<NoteId(seg, 1), NoteId(seg, 2)>>]
        ELSE [type |-> "CHORD", notes |-> <<NoteId(seg, 1)>>]
    ELSE IF track = 5 /\ sc.layout[seg] = "chord"
    THEN [type |-> "CHORD", notes |-> <<NoteId(seg, 3)>>]
    ELSE [type |-> "NONE", notes |-> <<>>]

\* The note objects of the score as the host built them; tied notes have
\* the same pitch.
InitialNotes(sc) ==
    LET ids == { NoteId(seg, 1) : seg \in {x \in 1..NumSegments : HasFirstNote(sc.layout[x])} }
               \cup { NoteId(seg, k) : seg \in {x \in 1..NumSegments : sc.layout[x] = "chord"},
                                       k \in {2, 3} }
        pitchOf(id) == IF KOf(id) = 1 THEN sc.frame.base
                       ELSE IF KOf(id) = 2 THEN sc.frame.base + 4 ELSE sc.frame.base - 15
    IN [id \in ids |->
          [pitch |-> pitchOf(id),
           tpc1 |-> HostTpc(pitchOf(id)),
           tpc2 |-> HostTpc(pitchOf(id)) + sc.frame.transposition,
           tieBack |-> IF KOf(id) = 1 /\ SegOf(id) > 1 /\ IsTied(sc.layout[SegOf(id) - 1])
                       THEN NoteId(SegOf(id) - 1, 1) ELSE 0,
           tieForward |-> IF KOf(id) = 1 /\ IsTied(sc.layout[SegOf(id)])
                          THEN NoteId(SegOf(id) + 1, 1) ELSE 0]]

\* ------------------------------------------------------------------------
\* The retuning pass (onRun)
\* ------------------------------------------------------------------------

VARIABLES
    score,                  \* curScore as the host built it (never written)
    notes,                  \* the note objects: pitch, tpc1, tpc2, ties
    segment,                \* index of the segment of the loop, 0 = null
    mostRecentChordSymbol,  \* a text or null
    strongBeat,             \* const isSegmentOnStrongBeat of the iteration
    visited,                \* notes of this segment already processed
    pc,                     \* "segment", "notes" or "done"
    lastChordSpec,          \* render.lastChordSpec
    snaps,                  \* history: the snap calls made so far
    op,                     \* single calls: the function applied ("" = none yet)
    arg,                    \* single calls: its arguments
    res                     \* single calls: what it returned

passVars == <<score, notes, segment, mostRecentChordSymbol, strongBeat, visited, pc,
              lastChordSpec, snaps>>

vars == <<score, notes, segment, mostRecentChordSymbol, strongBeat, visited, pc,
          lastChordSpec, snaps, op, arg, res>>

\* The annotation loop without the "N.C." case: every Harmony text is kept.
RECURSIVE ReadAnnotationsKeepingNoChord(_, _, _)
ReadAnnotationsKeepingNoChord(annotations, k, most) ==
    IF k > Len(annotations) THEN most
    ELSE IF annotations[k].name = "Harmony"
    THEN ReadAnnotationsKeepingNoChord(annotations, k + 1, annotations[k].text)
    ELSE ReadAnnotationsKeepingNoChord(annotations, k + 1, most)

\* The annotation loop breaking at the first Harmony of the segment.
RECURSIVE ReadAnnotationsFirstHarmony(_, _, _)
ReadAnnotationsFirstHarmony(annotations, k, most) ==
    IF k > Len(annotations) THEN most
    ELSE IF annotations[k].name = "Harmony"
    THEN IF annotations[k].text = <<"N", ".", "C", ".">> THEN null
         ELSE annotations[k].text
    ELSE ReadAnnotationsFirstHarmony(annotations, k + 1, most)

\* The annotation loop of one segment, from annotation k on.
RECURSIVE ReadAnnotations(_, _, _)
ReadAnnotations(annotations, k, most) ==
    IF k > Len(annotations) THEN most
    ELSE IF annotations[k].name = "Harmony"
    THEN IF annotations[k].text = <<"N", ".", "C", ".">>
         THEN ReadAnnotations(annotations, k + 1, null)
         ELSE ReadAnnotations(annotations, k + 1, annotations[k].text)
    ELSE ReadAnnotations(annotations, k + 1, most)

\* The notes of a segment in the order the staff / voice / note loops meet
\* them: tracks 0 .. nstaves * numVoices - 1, chords only.
RECURSIVE VisitOrder(_, _, _)
VisitOrder(sc, seg, track) ==
    IF track >= sc.frame.nstaves * numVoices THEN <<>>
    ELSE LET currentElement == elementAt(sc, seg, track)
         IN (IF currentElement.type # "CHORD" THEN <<>> ELSE currentElement.notes)
            \o VisitOrder(sc, seg, track + 1)

Init ==
    /\ score \in Scores
    /\ notes = InitialNotes(score)
    /\ segment = 1
    /\ mostRecentChordSymbol = null
    /\ strongBeat = FALSE
    /\ visited = 0
    /\ pc = "segment"
    /\ lastChordSpec = <<>>
    /\ snaps = <<>>
    /\ op = ""
    /\ arg = <<>>
    /\ res = <<>>

\* Top of the while body: the beat class, then the annotation loop.
SegmentStart ==
    /\ pc = "segment"
    /\ strongBeat' = isSegmentOnStrongBeat(SegmentOf(score, segment))
    /\ mostRecentChordSymbol' =
          ReadAnnotations(score.annot[segment], 1, mostRecentChordSymbol)
    /\ visited' = 0
    /\ pc' = "notes"
    /\ UNCHANGED <<score, notes, segment, lastChordSpec, snaps, op, arg, res>>

\* The else branch of the note loop: the note after snapNoteToNearestScaleTone,
\* with what getScaleForChord returned (scaleTones).
SnapToScale(note, scaleTones) ==
    [note |-> snapNoteToNearestScaleTone(note, scaleTones.midiNotes),
     lastChordSpec |-> scaleTones.lastChordSpec,
     chordTones |-> scaleTones.midiNotes]

\* The if / else of the note loop: [note, lastChordSpec, chordTones].
SnapByBeat(note, chord, strong, remembered) ==
    IF strong THEN snapNoteToNearestChordTone(note, chord, remembered)
    ELSE SnapToScale(note, getScaleForChord(chord, remembered))

\* The note loop without its tie step.
TieStepWithoutWalk(ns1, id) == ns1

\* The tie step of the note loop on the note store ns1.
TieStep(ns1, id) ==
    IF isNoteTheLastNoteInTieChain(ns1[id])
    THEN repitchEarlierNotesInTieChain(ns1, id, id)
    ELSE ns1

\* The note loop's effect on note id, sn what the snap of its beat class did.
StoreSnap(id, sn) ==
    /\ notes' = TieStep([notes EXCEPT ![id] = sn.note], id)
    /\ lastChordSpec' = sn.lastChordSpec
    /\ snaps' = Append(snaps,
                       [id |-> id, chord |-> mostRecentChordSymbol,
                        strong |-> strongBeat,
                        tones |-> sn.chordTones,
                        before |-> notes[id].pitch,
                        after |-> sn.note.pitch,
                        remembered |-> lastChordSpec])

SnapNote(id) ==
    StoreSnap(id, SnapByBeat(notes[id], mostRecentChordSymbol, strongBeat, lastChordSpec))

\* The body of the note loop for the next note of the segment: the snap of
\* the beat class, then the tie chain when the note ends one.
ProcessNote ==
    /\ pc = "notes"
    /\ visited < Len(VisitOrder(score, segment, 0))
    /\ SnapNote(VisitOrder(score, segment, 0)[visited + 1])
    /\ visited' = visited + 1
    /\ UNCHANGED <<score, segment, mostRecentChordSymbol, strongBeat, pc, op, arg, res>>

\* The end of the while body without segment = segment.next.
NextSegmentStaying ==
    /\ pc = "notes"
    /\ visited >= Len(VisitOrder(score, segment, 0))
    /\ pc' = "segment"
    /\ UNCHANGED <<score, notes, segment, mostRecentChordSymbol, strongBeat, visited,
                   lastChordSpec, snaps, op, arg, res>>

\* segment = segment.next after the last note; Qt.quit() after the last segment.
NextSegment ==
    /\ pc = "notes"
    /\ visited >= Len(VisitOrder(score, segment, 0))
    /\ IF segment < NumSegments
       THEN segment' = segment + 1 /\ pc' = "segment"
       ELSE segment' = 0 /\ pc' = "done"
    /\ UNCHANGED <<score, notes, mostRecentChordSymbol, strongBeat, visited,
                   lastChordSpec, snaps, op, arg, res>>

Next == SegmentStart \/ ProcessNote \/ NextSegment

Spec == Init /\ [][Next]_vars

\* The pass as the host runs it: onRun is one synchronous call, so the
\* script keeps taking steps until Qt.quit().  Weak fairness of each action
\* of Next; for ProcessNote it is written out, with the guard of the action
\* for ENABLED <<ProcessNote>>_vars (the functions it applies are total and
\* the step always changes visited).
SpecFair ==
    /\ Spec
    /\ WF_vars(SegmentStart)
    /\ WF_vars(NextSegment)
    /\ \/ []<>~(pc = "notes" /\ visited < Len(VisitOrder(score, segment, 0)))
       \/ []<><<ProcessNote>>_vars

\* onRun once more, with mostRecentChordSymbol kept from the pass before.
RunAgainKeepingChord ==
    /\ pc = "done"
    /\ segment' = 1
    /\ strongBeat' = FALSE
    /\ visited' = 0
    /\ pc' = "segment"
    /\ snaps' = <<>>
    /\ op' = "onRun"
    /\ res' = notes
    /\ UNCHANGED <<score, notes, mostRecentChordSymbol, lastChordSpec, arg>>

\* onRun once more on the same score, in the same instance of the script:
\* its local variables start afresh, the notes are as the last pass left
\* them, and render.lastChordSpec, which onRun never assigns, is as well.
\* op and res record the call that is over: onRun, and the notes it left.
RunAgain ==
    /\ pc = "done"
    /\ segment' = 1
    /\ mostRecentChordSymbol' = null
    /\ strongBeat' = FALSE
    /\ visited' = 0
    /\ pc' = "segment"
    /\ snaps' = <<>>
    /\ op' = "onRun"
    /\ res' = notes
    /\ UNCHANGED <<score, notes, lastChordSpec, arg>>

NextRerun == Next \/ RunAgain

\* Retuning passes one after another.
SpecRerun == Init /\ [][NextRerun]_vars

\* ------------------------------------------------------------------------
\* Properties of the retuning pass
\* ------------------------------------------------------------------------

\* The pitch a note had before the pass.
Original(id) == InitialNotes(score)[id].pitch

\* The last note of the tie chain of note id (tieForward links followed).
RECURSIVE ChainLast(_)
ChainLast(id) == IF notes[id].tieForward = 0 THEN id ELSE ChainLast(notes[id].tieForward)

\* The texts of the Harmony annotations of segments 1..seg, in score order.
RECURSIVE HarmonyTexts(_, _)
HarmonyTexts(sc, seg) ==
    IF seg = 0 THEN <<>>
    ELSE HarmonyTexts(sc, seg - 1) \o
         LET h == SelectSeq(sc.annot[seg], LAMBDA a : a.name = "Harmony")
         IN [k \in 1..Len(h) |-> h[k].text]

\* The governing chord symbol of segment seg as the harmony timeline defines
\* it: the last Harmony text at or before seg, none if that is "N.C.".
GoverningAt(sc, seg) ==
    LET h == HarmonyTexts(sc, seg)
    IN IF h = <<>> THEN null
       ELSE IF h[Len(h)] = <<"N", ".", "C", ".">> THEN null
       ELSE h[Len(h)]

\* The beat class of a segment from its position: a whole number of beats of
\* 1920 / denominator ticks after the start of its measure.
OnBeat(sc, seg) ==
    LET g == SegmentOf(sc, seg)
    IN \E n \in 0..g.denominator * g.numerator :
          n * 1920 = (g.tick - g.start) * g.denominator

Visited(id) == \E k \in 1..Len(snaps) : snaps[k].id = id

\* C1: once the pass has completed, every note of every tie chain has the
\* pitch of the chain's last note, whatever chords and beats its members
\* fall under.
C1_TieChainsUnified ==
    pc = "done" =>
        \A id \in DOMAIN notes : notes[id].pitch = notes[ChainLast(id)].pitch

\* C1 witness: a completed pass over a chain of three notes whose first and
\* last notes have different governing chords and whose first note was moved.
C1_Witness ==
    /\ pc = "done"
    /\ \E id \in DOMAIN notes :
          /\ notes[id].tieForward # 0
          /\ notes[notes[id].tieForward].tieForward # 0
          /\ GoverningAt(score, SegOf(id)) # GoverningAt(score, SegOf(ChainLast(id)))
          /\ notes[id].pitch # Original(id)

C3_GoverningChordIsLatestHarmony ==
    /\ snaps # <<>> =>
          snaps[Len(snaps)].chord = GoverningAt(score, SegOf(snaps[Len(snaps)].id))
    /\ pc = "notes" => mostRecentChordSymbol = GoverningAt(score, segment)
    /\ pc = "segment" => mostRecentChordSymbol = GoverningAt(score, segment - 1)

\* C3 witness: a note snapped with a chord symbol carried over from an
\* earlier segment (its own segment has no annotation), after another note
\* was snapped with no chord.
C3_Witness ==
    /\ Len(snaps) >= 2
    /\ snaps[Len(snaps)].chord # null
    /\ score.annot[SegOf(snaps[Len(snaps)].id)] = <<>>
    /\ \E k \in 1..Len(snaps) : snaps[k].chord = null

\* The root a chord symbol is rendered on: its own, else the remembered one.
RootFor(text, remembered) ==
    IF Parsed(text).letter # "" THEN Parsed(text)
    ELSE IF remembered = <<>> THEN [EmptySpec EXCEPT !.letter = "C"]
    ELSE remembered[1]

BassPitchClass(text, remembered) ==
    IF Parsed(text).bass.letter # "" THEN letterToInterval(Parsed(text).bass)
    ELSE letterToInterval(RootFor(text, remembered))

\* The pitch classes of a chordMap on a root.
MapPitchClasses(chordMap, root) ==
    { (letterToInterval(root) + notesemitones(d) + chordMap[d] + 12) % 12 :
        d \in { x \in DOMAIN chordMap : notesemitones(x) # NaN } }

\* The pitch classes of the tones of a chord (expand output plus bass) ...
ChordPitchClasses(text, remembered) ==
    MapPitchClasses(Expanded(text).chordMap, RootFor(text, remembered))
        \cup {BassPitchClass(text, remembered)}

\* ... and of the tones of the scale derived for it (plus bass).
ScalePitchClasses(text, remembered) ==
    MapPitchClasses(ScaleMapOf(text), RootFor(text, remembered))
        \cup {BassPitchClass(text, remembered)}

TargetPitchClasses(sn) ==
    IF OnBeat(score, SegOf(sn.id)) THEN ChordPitchClasses(sn.chord, sn.remembered)
    ELSE ScalePitchClasses(sn.chord, sn.remembered)

C5_TargetSetByBeatClass ==
    snaps # <<>> =>
        LET sn == snaps[Len(snaps)]
        IN sn.chord # null =>
              sn.tones =
                 IF OnBeat(score, SegOf(sn.id))
                 THEN chordTextToMidiNotes(sn.chord, TRUE, sn.remembered).midiNotes
                 ELSE getScaleForChord(sn.chord, sn.remembered).midiNotes

\* C5 witness: the same chord symbol used on a strong and on a weak beat with
\* different target sets, and two notes of one segment (different staves,
\* voices and note indices) snapped against the same set.
C5_Witness ==
    /\ \E j, k \in 1..Len(snaps) :
          /\ snaps[j].chord # null /\ snaps[j].chord = snaps[k].chord
          /\ snaps[j].strong /\ ~snaps[k].strong
          /\ snaps[j].tones # snaps[k].tones
    /\ \E j, k \in 1..Len(snaps) :
          /\ SegOf(snaps[j].id) = SegOf(snaps[k].id)
          /\ KOf(snaps[j].id) = 1 /\ KOf(snaps[k].id) = 3
          /\ snaps[j].chord # null /\ snaps[j].tones = snaps[k].tones

\* ------------------------------------------------------------------------
\* Single calls of the snap functions
\* ------------------------------------------------------------------------

\* Longest target list handed to snapNoteToNearestScaleTone.
MaxTargets == 3

\* No retuning pass is running: the single calls below leave these alone.
NoPass ==
    /\ score = <<>>
    /\ notes = <<>>
    /\ segment = 0
    /\ mostRecentChordSymbol = null
    /\ strongBeat = FALSE
    /\ visited = 0
    /\ pc = "idle"
    /\ snaps = <<>>

\* Note objects a caller can pass: one pitch of every pitch class, spelled by
\* the host, at concert pitch or on a transposing staff.
SnapNotes ==
    { [pitch |-> p, tpc1 |-> HostTpc(p), tpc2 |-> HostTpc(p) + t,
       tieBack |-> 0, tieForward |-> 0] : p \in 55..66, t \in {0, 2} }

\* Arrays of MIDI pitches a caller can pass as scaleTones.
TargetLists == UNION { [1..n -> {48, 54, 60, 64, 67}] : n \in 0..MaxTargets }

SnapChordArgs == [note : SnapNotes, chord : KnownTexts \cup {null}]

SnapScaleArgs == [note : SnapNotes, scaleTones : TargetLists]

InitSnap ==
    /\ NoPass
    /\ lastChordSpec = <<>>
    /\ op = ""
    /\ arg \in SnapChordArgs \cup SnapScaleArgs
    /\ res = <<>>

\* One call snapNoteToNearestChordTone(note, chord).
CallSnapChordTone ==
    /\ op = ""
    /\ arg \in SnapChordArgs
    /\ op' = "snapNoteToNearestChordTone"
    /\ res' = snapNoteToNearestChordTone(arg.note, arg.chord, lastChordSpec)
    /\ lastChordSpec' = res'.lastChordSpec
    /\ UNCHANGED <<score, notes, segment, mostRecentChordSymbol, strongBeat, visited,
                   pc, snaps, arg>>

\* One call getScaleForChord(chord).
CallGetScaleForChord ==
    /\ op = ""
    /\ arg \in SnapChordArgs
    /\ op' = "getScaleForChord"
    /\ res' = getScaleForChord(arg.chord, lastChordSpec)
    /\ lastChordSpec' = res'.lastChordSpec
    /\ UNCHANGED <<score, notes, segment, mostRecentChordSymbol, strongBeat, visited,
                   pc, snaps, arg>>

\* One call snapNoteToNearestScaleTone(note, scaleTones).
CallSnapScaleTone ==
    /\ op = ""
    /\ arg \in SnapScaleArgs
    /\ op' = "snapNoteToNearestScaleTone"
    /\ res' = [note |-> snapNoteToNearestScaleTone(arg.note, arg.scaleTones)]
    /\ UNCHANGED <<score, notes, segment, mostRecentChordSymbol, strongBeat, visited,
                   pc, snaps, lastChordSpec, arg>>

NextSnap == CallSnapChordTone \/ CallGetScaleForChord \/ CallSnapScaleTone

SpecSnap == InitSnap /\ [][NextSnap]_vars

\* ------------------------------------------------------------------------
\* Single calls of isSegmentOnStrongBeat
\* ------------------------------------------------------------------------

\* Segments lie up to MaxTickSteps steps of 40 ticks after their measure's start.
MaxTickSteps == 48

\* Segment objects: measure starts after 0, one 3/8 or one 4/4 measure.
BeatSegments ==
    { [tick |-> s + k * 40, start |-> s, numerator |-> n, denominator |-> d] :
        s \in {0, 720, 1920}, k \in 0..MaxTickSteps,
        n \in {2, 3, 4, 6}, d \in {2, 4, 8, 16} }

InitBeat ==
    /\ NoPass
    /\ lastChordSpec = <<>>
    /\ op = ""
    /\ arg \in BeatSegments
    /\ res = <<>>

\* One call isSegmentOnStrongBeat(segment).
CallIsSegmentOnStrongBeat ==
    /\ op = ""
    /\ op' = "isSegmentOnStrongBeat"
    /\ res' = isSegmentOnStrongBeat(arg)
    /\ UNCHANGED <<passVars, arg>>

NextBeat == CallIsSegmentOnStrongBeat

SpecBeat == InitBeat /\ [][NextBeat]_vars

\* ------------------------------------------------------------------------
\* Single calls of expandChordSpec(parseChordSymbol(text))
\* ------------------------------------------------------------------------

\* Most middle tokens after the front part of a chord symbol text.
MaxMiddle == 2

RECURSIVE Flatten(_)
Flatten(ss) == IF ss = <<>> THEN <<>> ELSE Head(ss) \o Flatten(Tail(ss))

QualityTexts ==
    { <<>>, <<"M">>, <<"m">>, <<"d", "i", "m">>, <<"OSLASH">>, <<"+">>, <<"^">> }

NumberTexts == { <<>>, <<"5">>, <<"6">>, <<"7">>, <<"9">>, <<"1", "1">>, <<"1", "3">> }

MiddlePool ==
    { <<"s", "u", "s">>, <<"a", "d", "d", "9">>, <<"n", "o", "5">>, <<"b", "9">>,
      <<"#", "9">>, <<"#", "b", "9">>, <<"a", "l", "t">>, <<"6", "9">> }

\* Chord symbol texts with suspensions: root C, a quality token, a number,
\* middle tokens around suspensions.
SusTexts ==
    LET SusPool ==
            { <<"s", "u", "s">>, <<"s", "u", "s", "2">>, <<"s", "u", "s", "3">>,
              <<"s", "u", "s", "9">>, <<"a", "d", "d", "3">>, <<"b", "3">>,
              <<"a", "l", "t">>, <<"#", "9">> }
    IN { <<"C">> \o q \o n \o Flatten(m) :
           q \in { <<>>, <<"m">>, <<"+">> }, n \in { <<>>, <<"7">> },
           m \in UNION { [1..k -> SusPool] : k \in 0..MaxMiddle } }

\* Chord symbol texts: root C, a quality token, a number, middle tokens.
ChordTexts ==
    { <<"C">> \o q \o n \o Flatten(m) :
        q \in QualityTexts, n \in NumberTexts,
        m \in UNION { [1..k -> MiddlePool] : k \in 0..MaxMiddle } }
      \cup SusTexts

InitExpand ==
    /\ NoPass
    /\ lastChordSpec = <<>>
    /\ op = ""
    /\ arg \in ChordTexts
    /\ res = <<>>

\* The first two steps of chordTextToMidiNotes: parse, then expand.
CallExpandChordSpec ==
    /\ op = ""
    /\ op' = "expandChordSpec"
    /\ res' = [chordSpec |-> parseChordSymbol(arg),
               chordMap |-> expandChordSpec(parseChordSymbol(arg)).chordMap]
    /\ UNCHANGED <<passVars, arg>>

NextExpand == CallExpandChordSpec

SpecExpand == InitExpand /\ [][NextExpand]_vars

\* ------------------------------------------------------------------------
\* Single calls of chordTextToMidiNotes and getScaleForChord
\* ------------------------------------------------------------------------

\* Chord symbol texts on root C: a quality token, a number, middle tokens.
ScaleTexts ==
    LET ScaleQualityTexts ==
            { <<>>, <<"M">>, <<"m">>, <<"d", "i", "m">>, <<"o">>, <<"OSLASH">>,
              <<"0">>, <<"+">>, <<"^">> }
        ScaleNumberTexts == { <<>>, <<"6">>, <<"7">>, <<"9">>, <<"1", "3">> }
        ScaleMiddlePool ==
            { <<"b", "9">>, <<"#", "1", "1">>, <<"b", "1", "3">>, <<"#", "6">>,
              <<"a", "d", "d", "8">>, <<"s", "u", "s", "2">>, <<"n", "o", "5">>,
              <<"b", "5">> }
    IN { <<"C">> \o q \o n \o Flatten(m) :
           q \in ScaleQualityTexts, n \in ScaleNumberTexts,
           m \in UNION { [1..k -> ScaleMiddlePool] : k \in 0..MaxMiddle } }

\* Chord symbol texts on every root, with and without a bass override.
BassChordTexts ==
    LET RootTexts ==
            { <<>>, <<"C">>, <<"C", "#">>, <<"D", "b">>, <<"D">>, <<"E", "b">>,
              <<"E">>, <<"F">>, <<"F", "#">>, <<"G">>, <<"A", "b">>, <<"A">>,
              <<"B", "b">>, <<"B">>, <<"C", "b">>, <<"B", "#">>, <<"e">> }
        BassTexts ==
            { <<>>, <<"/", "C">>, <<"/", "E">>, <<"/", "B">>, <<"/", "E", "b">>,
              <<"/", "F", "#">>, <<"/", "C", "b">>, <<"/", "G">> }
    IN { r \o q \o b :
           r \in RootTexts,
           q \in { <<>>, <<"m", "7">>, <<"n", "o", "1">>, <<"1", "3">> },
           b \in BassTexts }

\* The chord symbol texts the single calls are made with; the last ones are
\* diminished chords that name degree 8 themselves.
ChordCallTexts ==
    ScaleTexts \cup BassChordTexts
      \cup { <<"C", "d", "i", "m", "#", "8">>, <<"E", "b", "o", "7", "#", "8">>,
              <<"C", "o", "a", "d", "d", "8", "n", "o", "1", "/", "E">> }

InitChord ==
    /\ NoPass
    /\ lastChordSpec = <<>>
    /\ op = ""
    /\ arg \in ChordCallTexts
    /\ res = <<>>

\* What a call leaves behind: the chordMap handed to render, the
\* specification after render, the array render returned, the array the
\* call returned, and render.lastChordSpec.
CallRecord(map, r, midiNotes, raw) ==
    [chordMap |-> map, chordSpec |-> r.chordSpec, rendered |-> r.midiNotes,
     midiNotes |-> midiNotes, raw |-> raw, lastChordSpec |-> r.lastChordSpec]

\* chordTextToMidiNotes from render on.
ChordCallVoiced(map, r, raw) == CallRecord(map, r, VoiceChord(r, raw).midiNotes, raw)

ChordCallRendered(map, chordSpec, raw, remembered) ==
    ChordCallVoiced(map, render(map, chordSpec, remembered), raw)

\* chordTextToMidiNotes after parseChordSymbol and expandChordSpec (ex).
ChordCall(ex, raw, remembered) ==
    ChordCallRendered(IF raw THEN ex.chordMap ELSE prune(4, ex.chordMap),
                      ex.chordSpec, raw, remembered)

\* getScaleForChord from render on.
ScaleCallVoiced(map, r) == CallRecord(map, r, ScaleNotes(r).midiNotes, TRUE)

\* getScaleForChord for a chord text.
ScaleCall(map, chordSpec, remembered) ==
    ScaleCallVoiced(map, render(map, chordSpec, remembered))

\* One call chordTextToMidiNotes(text, raw).
CallChordTextToMidiNotes ==
    /\ op = ""
    /\ op' = "chordTextToMidiNotes"
    /\ \E raw \in BOOLEAN : res' = ChordCall(Expanded(arg), raw, lastChordSpec)
    /\ lastChordSpec' = res'.lastChordSpec
    /\ UNCHANGED <<score, notes, segment, mostRecentChordSymbol, strongBeat, visited,
                   pc, snaps, arg>>

\* One call getScaleForChord(chord) with a chord text.
CallGetScaleForChordText ==
    /\ op = ""
    /\ op' = "getScaleForChord"
    /\ res' = ScaleCall(ScaleMapOf(arg), Expanded(arg).chordSpec, lastChordSpec)
    /\ lastChordSpec' = res'.lastChordSpec
    /\ UNCHANGED <<score, notes, segment, mostRecentChordSymbol, strongBeat, visited,
                   pc, snaps, arg>>

NextChord == CallChordTextToMidiNotes \/ CallGetScaleForChordText

SpecChord == InitChord /\ [][NextChord]_vars

\* ------------------------------------------------------------------------
\* Calls of chordTextToMidiNotes and getScaleForChord one after another
\* ------------------------------------------------------------------------

\* Most calls made one after another.
MaxCalls == 3

\* Chord symbol texts with and without a root letter.
FollowTexts ==
    { <<"D">>, <<"E", "b", "m", "7">>, <<"/", "B">>, <<"/", "E">>,
      <<"s", "u", "s", "4">> }

InitRender ==
    /\ NoPass
    /\ lastChordSpec = <<>>
    /\ op = ""
    /\ arg = <<>>
    /\ res = <<>>

\* What the call history keeps of a call: the text, render.lastChordSpec
\* before the call and the specification after render.
HistoryEntry(text, remembered, r) ==
    [text |-> text, remembered |-> remembered, chordSpec |-> r.chordSpec]

\* The next call is chordTextToMidiNotes(text, raw).
NextCallChordTextToMidiNotes ==
    /\ Len(snaps) < MaxCalls
    /\ \E text \in FollowTexts, raw \in BOOLEAN :
          /\ arg' = text
          /\ res' = ChordCall(Expanded(text), raw, lastChordSpec)
    /\ op' = "chordTextToMidiNotes"
    /\ lastChordSpec' = res'.lastChordSpec
    /\ snaps' = Append(snaps, HistoryEntry(arg', lastChordSpec, res'))
    /\ UNCHANGED <<score, notes, segment, mostRecentChordSymbol, strongBeat, visited, pc>>

\* The next call is getScaleForChord(text).
NextCallGetScaleForChord ==
    /\ Len(snaps) < MaxCalls
    /\ \E text \in FollowTexts :
          /\ arg' = text
          /\ res' = ScaleCall(ScaleMapOf(text), Expanded(text).chordSpec, lastChordSpec)
    /\ op' = "getScaleForChord"
    /\ lastChordSpec' = res'.lastChordSpec
    /\ snaps' = Append(snaps, HistoryEntry(arg', lastChordSpec, res'))
    /\ UNCHANGED <<score, notes, segment, mostRecentChordSymbol, strongBeat, visited, pc>>

NextRender == NextCallChordTextToMidiNotes \/ NextCallGetScaleForChord

SpecRender == InitRender /\ [][NextRender]_vars

\* ------------------------------------------------------------------------
\* Single calls of parseChordSymbol and of the functions that start with it
\* ------------------------------------------------------------------------

\* Most pieces a text is put together from.
MaxPieces == 3

\* Every text of at most MaxPieces pieces, the empty string included; the
\* pieces are tokens of the grammar, parentheses, and characters no rule of
\* the grammar matches.  Then root C followed by up to two quality
\* tokens and a number, and a root followed by a minor synonym and one
\* middle token.  The last texts name degrees by numbers the
\* grammar's ([0-9]+) and ([0-9]) accept, or have a major number in the
\* middle part.
ParseTexts ==
    LET PiecePool ==
            { <<"C">>, <<"m", "7">>, <<"s", "u", "s">>, <<"b", "9">>, <<"/", "B">>,
              <<"(">>, <<")">>, <<"x">>, <<"?">>, <<"7">> }
        QualityPool ==
            { <<>>, <<"M">>, <<"m", "a", "j">>, <<"m">>, <<"-">>, <<"d", "i", "m">>,
              <<"o">>, <<"OSLASH">>, <<"0">>, <<"+">>, <<"a", "u", "g">>, <<"^">>,
              <<"t">> }
    IN { Flatten(m) : m \in UNION { [1..k -> PiecePool] : k \in 0..MaxPieces } }
         \cup { <<"C">> \o q1 \o q2 \o n :
                   q1 \in QualityPool, q2 \in QualityPool, n \in { <<>>, <<"7">> } }
         \cup { r \o q \o t :
                   r \in { <<"C">>, <<"E", "b">>, <<"F", "#">> },
                   q \in { <<"m", "i", "n", "o", "r">>, <<"m", "i", "n">>, <<"m", "i">>,
                           <<"m">>, <<"-">> },
                   t \in { <<"a", "l", "t">>, <<"s", "u", "s">>, <<"s", "u", "s", "2">>,
                           <<"a", "d", "d", "9">>, <<"d", "r", "o", "p", "5">>,
                           <<"n", "o", "5">>, <<"b", "9">>, <<"#", "1", "1">> } }
         \cup { <<"C", "a", "d", "d", "1", "5">>, <<"C", "a", "d", "d", "1", "0">>,
                 <<"C", "m", "#", "1", "2">>, <<"C", "s", "u", "s", "0">>,
                 <<"C", "7", "b", "1", "4">>, <<"C", "m", "M", "7">>,
                 <<"C", "m", "a", "j", "9">> }

InitParse ==
    /\ NoPass
    /\ lastChordSpec = <<>>
    /\ op = ""
    /\ arg \in ParseTexts
    /\ res = <<>>

\* One call parseChordSymbol(symbol).
CallParseChordSymbol ==
    /\ op = ""
    /\ op' = "parseChordSymbol"
    /\ res' = [chordSpec |-> parseChordSymbol(arg)]
    /\ UNCHANGED <<passVars, arg>>

NextParse == CallParseChordSymbol \/ CallChordTextToMidiNotes \/ CallGetScaleForChordText

SpecParse == InitParse /\ [][NextParse]_vars

\* ------------------------------------------------------------------------
\* Properties of the snap functions
\* ------------------------------------------------------------------------

\* asc(t) = (t - p) mod 12
Asc(t, p) == (t - p) % 12

\* asc(T[1]), asc(T[1]) - 12, asc(T[2]), asc(T[2]) - 12, ...
Candidates(T, p) ==
    [k \in 1..(2 * Len(T)) |->
        IF k % 2 = 1 THEN Asc(T[(k + 1) \div 2], p) ELSE Asc(T[k \div 2], p) - 12]

\* The circular distance between pitch p and the pitch class of t.
CircularDistance(t, p) == IF Asc(t, p) <= 6 THEN Asc(t, p) ELSE 12 - Asc(t, p)

\* The target list a snap call used.
TargetsOfCall ==
    IF op = "snapNoteToNearestChordTone" THEN res.chordTones
    ELSE IF op = "snapNoteToNearestScaleTone" THEN arg.scaleTones
    ELSE <<>>

\* C6: for every pitch p and non-empty target list T, both snap functions set
\* the pitch to p + d, d the first element of strictly smallest absolute
\* value among asc(T[1]), asc(T[1]) - 12, asc(T[2]), ...; so the new pitch
\* class is a target's, |d| <= 6, no target is circularly closer, the earlier
\* of equally near targets wins, a lone target at a tritone gives +6, and 61
\* against the tones of C major gives 60.
C6_SnapToFirstNearest ==
    TargetsOfCall # <<>> =>
        LET p == arg.note.pitch
            T == TargetsOfCall
            c == Candidates(T, p)
            d == res.note.pitch - p
            nearest == { i \in 1..Len(T) : CircularDistance(T[i], p) = Abs(d) }
        IN /\ \E k \in DOMAIN c :
                 /\ c[k] = d
                 /\ \A j \in DOMAIN c : Abs(c[k]) <= Abs(c[j])
                 /\ \A j \in 1..(k - 1) : Abs(c[j]) > Abs(c[k])
           /\ res.note.pitch % 12 \in { T[i] % 12 : i \in 1..Len(T) }
           /\ Abs(d) <= 6
           /\ \A i \in 1..Len(T) : CircularDistance(T[i], p) >= Abs(d)
           /\ nearest # {}
           /\ \A i \in nearest :
                 (\A j \in nearest : i <= j) => res.note.pitch % 12 = T[i] % 12
           /\ (Len(T) = 1 /\ Asc(T[1], p) = 6) => d = 6
           /\ (p = 61 /\ T = <<60, 64, 67>>) => res.note.pitch = 60
           /\ (p = 61 /\ op = "snapNoteToNearestChordTone" /\ arg.chord = <<"C">>) =>
                 res.note.pitch = 60

\* C6 witness: a scale snap decided by the order of two equally near targets
\* (62 between 64 and 60 goes to 64, the earlier one).
C6_Witness ==
    /\ op = "snapNoteToNearestScaleTone"
    /\ arg.note.pitch = 62
    /\ arg.scaleTones = <<64, 60>>
    /\ res.note.pitch = 64

\* C7: snapping against nothing is a no-op: with a null chord,
\* snapNoteToNearestChordTone leaves the note as it was and getScaleForChord
\* returns the empty list; snapNoteToNearestScaleTone with an empty list
\* leaves pitch, tpc1 and tpc2 as they were.
C7_EmptyTargetIsNoOp ==
    /\ (op = "snapNoteToNearestChordTone" /\ arg.chord = null) =>
          /\ res.note = arg.note
          /\ res.lastChordSpec = <<>>
    /\ (op = "getScaleForChord" /\ arg.chord = null) => res.midiNotes = <<>>
    /\ (op = "snapNoteToNearestScaleTone" /\ arg.scaleTones = <<>>) =>
          /\ res.note.pitch = arg.note.pitch
          /\ res.note.tpc1 = arg.note.tpc1
          /\ res.note.tpc2 = arg.note.tpc2

\* C7 witness: a scale snap with an empty list of a note whose spelling is
\* not the one alterPitchOfNote would write, on a transposing staff.
C7_Witness ==
    /\ op = "snapNoteToNearestScaleTone"
    /\ arg.scaleTones = <<>>
    /\ arg.note.tpc1 # pitchToTpc(arg.note.pitch)
    /\ arg.note.tpc2 # arg.note.tpc1
    /\ res.note = arg.note

\* ------------------------------------------------------------------------
\* Properties of isSegmentOnStrongBeat
\* ------------------------------------------------------------------------

\* C8: isSegmentOnStrongBeat is true exactly when (tick - measure start) mod
\* (1920 / denominator) = 0, i.e. a whole number of beats lies between them;
\* the numerator does not matter; with denominator 4 and start 0, tick 480 is
\* strong and tick 240 is not.
C8_StrongBeatIffWholeBeats ==
    op = "isSegmentOnStrongBeat" =>
        LET delta == arg.tick - arg.start
        IN /\ res = ((delta % (1920 \div arg.denominator)) = 0)
           /\ res = (\E k \in 0..delta : k * 1920 = delta * arg.denominator)
           /\ \A n \in {2, 3, 4, 6} :
                 isSegmentOnStrongBeat([arg EXCEPT !.numerator = n]) = res
           /\ (arg.denominator = 4 /\ arg.start = 0 /\ arg.tick = 480) => res = TRUE
           /\ (arg.denominator = 4 /\ arg.start = 0 /\ arg.tick = 240) => res = FALSE

\* C8 witness: a strong beat that a beat of 1920 / numerator ticks would
\* miss: one eighth into a 3/8 measure that starts at tick 720.
C8_Witness ==
    /\ op = "isSegmentOnStrongBeat"
    /\ arg.numerator = 3 /\ arg.denominator = 8
    /\ arg.start = 720 /\ arg.tick = 960
    /\ res = TRUE

\* ------------------------------------------------------------------------
\* Properties of expandChordSpec
\* ------------------------------------------------------------------------

\* The documented seed of a parsed specification, by its quality flag.
SeedTable(chordSpec) ==
    IF chordSpec.minor THEN (1 :> 0) @@ (3 :> -1) @@ (5 :> 0)
    ELSE IF chordSpec.diminished THEN (1 :> 0) @@ (3 :> -1) @@ (5 :> -1) @@ (7 :> -2)
    ELSE IF chordSpec.halfdim THEN (1 :> 0) @@ (3 :> -1) @@ (5 :> -1) @@ (7 :> -1)
    ELSE IF chordSpec.augmented THEN (1 :> 0) @@ (3 :> 0) @@ (5 :> 1)
    ELSE IF chordSpec.triangle THEN (1 :> 0) @@ (3 :> 0) @@ (5 :> 0) @@ (7 :> 0)
    ELSE (1 :> 0) @@ (3 :> 0) @@ (5 :> 0)

\* The documented default seventh of a quality.
SeventhTable(chordSpec) ==
    IF chordSpec.diminished THEN -2
    ELSE IF chordSpec.major \/ chordSpec.triangle THEN 0
    ELSE -1

\* The degrees an extension number adds.
CascadeTable(number) ==
    IF number = <<"1", "3">> THEN {13, 11, 9, 7}
    ELSE IF number = <<"1", "1">> THEN {11, 9, 7}
    ELSE IF number = <<"9">> THEN {9, 7}
    ELSE IF number = <<"7">> THEN {7}
    ELSE IF number = <<"6">> THEN {6}
    ELSE {}

\* The map the documented table gives for a quality and an extension number.
TableMap(chordSpec) ==
    LET seed == SeedTable(chordSpec)
        added == CascadeTable(chordSpec.number)
        removed == IF chordSpec.number = <<"5">> THEN {3} ELSE {}
    IN [d \in ((DOMAIN seed) \cup added) \ removed |->
          IF d \in added THEN (IF d = 7 THEN SeventhTable(chordSpec) ELSE 0)
          ELSE seed[d]]

\* A specification with a quality and an extension number and nothing else.
QualityAndNumberOnly(chordSpec) ==
    /\ chordSpec.number \in { <<"5">>, <<"6">>, <<"7">>, <<"9">>, <<"1", "1">>, <<"1", "3">> }
    /\ chordSpec.sus = <<>> /\ chordSpec.add = <<>> /\ chordSpec.drop = <<>>
    /\ chordSpec.alter = <<>> /\ ~chordSpec.alt /\ ~chordSpec.sixnine
    /\ chordSpec.majoralt = <<>>

\* C9: for a specification with one quality and one extension number and no
\* sus, add, drop, alteration, alt or six-nine, expandChordSpec returns the
\* seed triad of the quality extended by the cascade of the number, the added
\* seventh being the quality's default seventh; "Cm7" gives
\* {1:0, 3:-1, 5:0, 7:-1}.
C9_SeedAndCascade ==
    op = "expandChordSpec" =>
        /\ QualityAndNumberOnly(res.chordSpec) => res.chordMap = TableMap(res.chordSpec)
        /\ arg = <<"C", "m", "7">> =>
              res.chordMap = (1 :> 0) @@ (3 :> -1) @@ (5 :> 0) @@ (7 :> -1)

\* C9 witness: a diminished thirteenth expanded: the cascade ran down to a
\* double-flat seventh.
C9_Witness ==
    /\ op = "expandChordSpec"
    /\ QualityAndNumberOnly(res.chordSpec)
    /\ res.chordSpec.diminished
    /\ res.chordSpec.number = <<"1", "3">>
    /\ DOMAIN res.chordMap = {1, 3, 5, 7, 9, 11, 13}
    /\ res.chordMap[7] = -2

\* C10: explicit alterations are applied last and the last one per degree
\* wins: every degree named by an explicit alteration is in the map with +1
\* if the last alteration naming it (in parse order) has a sharp and -1 if it
\* has only a flat, whatever else the specification holds; "C7b9#9" expands
\* to the map of "C7#9".
C10_LastAlterationWins ==
    op = "expandChordSpec" =>
        LET alter == res.chordSpec.alter
        IN /\ \A k \in 1..Len(alter) :
                 (\A j \in (k + 1)..Len(alter) :
                      parseInt(alter[j].number) # parseInt(alter[k].number)) =>
                     /\ parseInt(alter[k].number) \in DOMAIN res.chordMap
                     /\ res.chordMap[parseInt(alter[k].number)] =
                           (IF alter[k].sharp THEN 1 ELSE -1)
           /\ arg = <<"C", "7", "b", "9", "#", "9">> =>
                 res.chordMap = Expanded(<<"C", "7", "#", "9">>).chordMap

\* C10 witness: "C7b9#9" expanded: two alterations of the ninth, the later
\* one sharp, and the ninth of the map sharp.
C10_Witness ==
    /\ op = "expandChordSpec"
    /\ arg = <<"C", "7", "b", "9", "#", "9">>
    /\ Len(res.chordSpec.alter) = 2
    /\ ~res.chordSpec.alter[1].sharp /\ res.chordSpec.alter[2].sharp
    /\ res.chordMap[9] = 1

\* The degrees the suspensions of a specification name.
SuspendedDegrees(chordSpec) ==
    { parseInt(chordSpec.sus[k]) : k \in 1..Len(chordSpec.sus) }

\* The degrees its adds and its explicit alterations name.
AddedDegrees(chordSpec) ==
    { parseInt(chordSpec.add[k]) : k \in 1..Len(chordSpec.add) }

AlteredDegrees(chordSpec) ==
    { parseInt(chordSpec.alter[k].number) : k \in 1..Len(chordSpec.alter) }

\* The degrees "alt" rewrites.
AltDegrees(chordSpec) == IF chordSpec.alt THEN {5, 7, 9} ELSE {}

\* A specification with a suspension and no add or alteration of degree 3.
SuspendedWithoutThird(chordSpec) ==
    /\ chordSpec.sus # <<>>
    /\ 3 \notin AddedDegrees(chordSpec)
    /\ 3 \notin AlteredDegrees(chordSpec)

\* C11 as stated: for every specification with at least one suspension and
\* no add or explicit alteration naming degree 3, the map of expandChordSpec
\* has no degree 3 and has every suspended degree, natural unless alt or an
\* explicit alteration changed it; "Csus4" and "Csus" give {1:0, 4:0, 5:0}.
C11_SusClearsThird ==
    op = "expandChordSpec" =>
        /\ SuspendedWithoutThird(res.chordSpec) =>
              /\ ~Has(res.chordMap, 3)
              /\ \A d \in SuspendedDegrees(res.chordSpec) :
                    /\ Has(res.chordMap, d)
                    /\ d \notin AltDegrees(res.chordSpec) \cup AlteredDegrees(res.chordSpec)
                          => res.chordMap[d] = 0
        /\ arg \in { <<"C", "s", "u", "s", "4">>, <<"C", "s", "u", "s">> } =>
              res.chordMap = (1 :> 0) @@ (4 :> 0) @@ (5 :> 0)

\* C11 amended: for every specification with at least one suspension and no
\* add or explicit alteration naming degree 3, the map of expandChordSpec has
\* no degree 3 (also when a suspension names degree 3 itself) and has every
\* suspended degree other than 3, natural unless alt or an explicit
\* alteration changed it; "Csus4" and "Csus" give {1:0, 4:0, 5:0}.
C11_SusClearsThirdExceptSusThree ==
    op = "expandChordSpec" =>
        /\ SuspendedWithoutThird(res.chordSpec) =>
              /\ ~Has(res.chordMap, 3)
              /\ \A d \in SuspendedDegrees(res.chordSpec) \ {3} :
                    /\ Has(res.chordMap, d)
                    /\ d \notin AltDegrees(res.chordSpec) \cup AlteredDegrees(res.chordSpec)
                          => res.chordMap[d] = 0
        /\ arg \in { <<"C", "s", "u", "s", "4">>, <<"C", "s", "u", "s">> } =>
              res.chordMap = (1 :> 0) @@ (4 :> 0) @@ (5 :> 0)

\* C11 witness: "Cm7sus2sus" expanded: two suspensions, the minor third gone,
\* degrees 2 and 4 natural next to the flat seventh.
C11_Witness ==
    /\ op = "expandChordSpec"
    /\ arg = <<"C", "m", "7", "s", "u", "s", "2", "s", "u", "s">>
    /\ res.chordSpec.sus = << <<"2">>, <<"4">> >>
    /\ res.chordMap = (1 :> 0) @@ (2 :> 0) @@ (4 :> 0) @@ (5 :> 0) @@ (7 :> -1)

\* ------------------------------------------------------------------------
\* Properties of render, addBass and getScaleForChord
\* ------------------------------------------------------------------------

\* Every element is <= its successor.
SortedAscending(q) == \A i \in 1..(Len(q) - 1) : q[i] <= q[i + 1]

\* C12: render returns a pitch sequence sorted ascending (every element <=
\* its successor) for every map that expandChordSpec or the scale-filling
\* step produces from a parsed chord symbol.
C12_RenderSortedAscending ==
    op \in {"chordTextToMidiNotes", "getScaleForChord"} => SortedAscending(res.rendered)

\* The interval of a note name above C: the letter's semitones, one more for
\* a sharp, one less for a flat, within the octave.
NameInterval(name) ==
    LET semi == CASE name.letter \in {"C", "c"} -> 0 [] name.letter \in {"D", "d"} -> 2
                  [] name.letter \in {"E", "e"} -> 4 [] name.letter \in {"F", "f"} -> 5
                  [] name.letter \in {"G", "g"} -> 7 [] name.letter \in {"A", "a"} -> 9
                  [] name.letter \in {"B", "b"} -> 11
    IN (semi + (IF name.sharp THEN 1 ELSE 0) - (IF name.flat THEN 1 ELSE 0) + 12) % 12

\* The bass pitch of a specification: 48 + the interval of the bass override
\* if there is one, else of the root; an octave lower from 52 on.
BassPitch(chordSpec) ==
    LET b0 == 48 + NameInterval(IF chordSpec.bass.letter # "" THEN chordSpec.bass
                                ELSE chordSpec)
    IN IF b0 >= 52 THEN b0 - 12 ELSE b0

\* The pitches addBass is handed by the call recorded in res.
PitchesBeforeBass ==
    IF res.raw THEN res.rendered ELSE findOptimumInversion(res.rendered, res.chordSpec)

SeqElements(q) == { q[i] : i \in 1..Len(q) }

PitchesOn(chordMap, name) ==
    LET keys == Keys(DOMAIN chordMap)
    IN [k \in 1..Len(keys) |->
          48 + NameInterval(name) + notesemitones(keys[k]) + chordMap[keys[k]]]

\* Root C, the root render takes when nothing is remembered.
DefaultRoot == [letter |-> "C", sharp |-> FALSE, flat |-> FALSE]

\* C14: a specification without a root letter is rendered on the letter,
\* sharp and flat of the specification passed to the immediately preceding
\* render call (root C if there was none), and with that root copied in it
\* becomes the remembered one; a specification with a root letter is rendered
\* on its own root whatever is remembered, and becomes the remembered one.
C14_RootlessUsesPrecedingRoot ==
    snaps # <<>> =>
        LET n == Len(snaps)
            parsed == Expanded(arg).chordSpec
            preceding == IF n = 1 THEN DefaultRoot ELSE snaps[n - 1].chordSpec
            root == IF parsed.letter = "" THEN preceding ELSE parsed
        IN /\ snaps[n].remembered = (IF n = 1 THEN <<>> ELSE <<snaps[n - 1].chordSpec>>)
           /\ res.chordSpec = [parsed EXCEPT !.letter = root.letter,
                                              !.sharp = root.sharp, !.flat = root.flat]
           /\ res.rendered = PitchesOn(res.chordMap, root)
           /\ lastChordSpec = <<res.chordSpec>>

\* C14 witness: "D", then "/B", then "/E": the third call renders the major
\* triad on D, the root copied into the "/B" specification, over the bass E.
C14_Witness ==
    /\ Len(snaps) = 3
    /\ snaps[1].text = <<"D">> /\ snaps[2].text = <<"/", "B">>
    /\ arg = <<"/", "E">>
    /\ op = "chordTextToMidiNotes" /\ res.raw
    /\ res.midiNotes = <<40, 50, 54, 57>>

\* The target list of a snap made with nothing remembered by render.
TargetsOnDefaultRoot(sn) ==
    IF sn.strong THEN chordTextToMidiNotes(sn.chord, TRUE, <<>>).midiNotes
    ELSE getScaleForChord(sn.chord, <<>>).midiNotes

\* C15: the last-rendered-root state is reset at the start of every retuning
\* pass: when the first chord symbol rendered in a pass has no root letter,
\* it is rendered on the default root C, in a second pass as in the first.
C15_RootResetPerPass ==
    \A k \in 1..Len(snaps) :
        (/\ snaps[k].chord # null
         /\ \A j \in 1..(k - 1) : snaps[j].chord = null
         /\ Parsed(snaps[k].chord).letter = "") =>
            snaps[k].tones = TargetsOnDefaultRoot(snaps[k])

\* ------------------------------------------------------------------------
\* Properties of parseChordSymbol
\* ------------------------------------------------------------------------

\* A non-empty text of digits.
IsNumberText(t) == Len(t) >= 1 /\ \A i \in 1..Len(t) : t[i] \in Digits

\* The four lists of a chord specification: sus, add and drop hold number
\* texts, alter holds records with a number text.
HasFourLists(chordSpec) ==
    /\ \A k \in 1..Len(chordSpec.sus) : IsNumberText(chordSpec.sus[k])
    /\ \A k \in 1..Len(chordSpec.add) : IsNumberText(chordSpec.add[k])
    /\ \A k \in 1..Len(chordSpec.drop) : IsNumberText(chordSpec.drop[k])
    /\ \A k \in 1..Len(chordSpec.alter) : IsNumberText(chordSpec.alter[k].number)

\* Characters that no rule of the grammar matches.
UnmatchedChars == {"x", "?"}

\* The text without the unmatched characters it ends with.
RECURSIVE WithoutUnmatchedEnd(_)
WithoutUnmatchedEnd(t) ==
    IF t # <<>> /\ t[Len(t)] \in UnmatchedChars
    THEN WithoutUnmatchedEnd(SubSeq(t, 1, Len(t) - 1))
    ELSE t

NaturalMajorTable == [d \in 1..7 |-> 0]

NaturalMinorTable == [d \in 1..7 |-> IF d \in {3, 6, 7} THEN -1 ELSE 0]

DiminishedTable ==
    [d \in 1..8 |-> IF d \in {3, 5, 6, 8} THEN -1 ELSE IF d = 7 THEN -2 ELSE 0]

\* No quality flag at all: a dominant chord or a plain triad.
NoQualityFlag(chordSpec) ==
    /\ ~chordSpec.major /\ ~chordSpec.minor /\ ~chordSpec.diminished
    /\ ~chordSpec.halfdim /\ ~chordSpec.augmented /\ ~chordSpec.triangle

\* The degrees 1..7 a chordMap leaves unspecified: neither the degree nor
\* the degree an octave higher is in it.
Unspecified(chordMap) == { d \in 1..7 : ~Has(chordMap, d) /\ ~Has(chordMap, d + 7) }

\* The scale map has the table's value at every degree the chord map leaves
\* unspecified.
FilledFrom(table, chordMap, scale) ==
    \A d \in Unspecified(chordMap) : Has(scale, d) /\ scale[d] = table[d]

\* C17: for a major, dominant (no quality flag), minor or diminished chord,
\* getScaleForChord fills every degree of 1..7 the chord leaves unspecified
\* from the default scale of the quality: all natural for major and
\* dominant; 3, 6, 7 flat for minor; 3, 5, 6 flat and 7 double-flat for
\* diminished, whose degree 8 with alteration -1 is always in the result,
\* also when the chord defines degree 1 or degree 8.
C17_DefaultScaleFill ==
    op = "getScaleForChord" =>
        LET chordMap == Expanded(arg).chordMap
        IN /\ (res.chordSpec.major \/ NoQualityFlag(res.chordSpec)) =>
                 /\ FilledFrom(NaturalMajorTable, chordMap, res.chordMap)
                 /\ Has(res.chordMap, 8) => (Has(chordMap, 8) /\ res.chordMap[8] = chordMap[8])
           /\ res.chordSpec.minor => FilledFrom(NaturalMinorTable, chordMap, res.chordMap)
           /\ res.chordSpec.diminished =>
                 /\ FilledFrom(DiminishedTable, chordMap, res.chordMap)
                 /\ Has(res.chordMap, 8) /\ res.chordMap[8] = -1

\* C17 witness: the scale of "Cdimadd8": the chord has degree 1 and a natural
\* degree 8, the scale has degrees 2, 4 and 6 filled in and degree 8 at -1.
C17_Witness ==
    /\ op = "getScaleForChord"
    /\ arg = <<"C", "d", "i", "m", "a", "d", "d", "8">>
    /\ Expanded(arg).chordMap = (1 :> 0) @@ (3 :> -1) @@ (5 :> -1) @@ (7 :> -2) @@ (8 :> 0)
    /\ res.chordMap = (1 :> 0) @@ (2 :> 0) @@ (3 :> -1) @@ (4 :> 0) @@ (5 :> -1)
                        @@ (6 :> -1) @@ (7 :> -2) @@ (8 :> -1)

\* C18: for a half-diminished chord that specifies neither degree 6 nor
\* degree 13, the scale of getScaleForChord is Locrian natural-2: degree 6
\* flat, degrees 2 and 4 (where the chord leaves them unspecified) natural,
\* next to the chord's own flat 3, flat 5 and flat 7.
C18_HalfDiminishedLocrian ==
    (/\ op = "getScaleForChord"
     /\ res.chordSpec.halfdim
     /\ 6 \in Unspecified(Expanded(arg).chordMap)) =>
        /\ Has(res.chordMap, 6) /\ res.chordMap[6] = -1
        /\ \A d \in {2, 4} \cap Unspecified(Expanded(arg).chordMap) :
              Has(res.chordMap, d) /\ res.chordMap[d] = 0
        /\ \A d \in DOMAIN Expanded(arg).chordMap \ {8} :
              res.chordMap[d] = Expanded(arg).chordMap[d]

\* The whole-tone scale as documented: 1, 2, 3, sharp 4, sharp 5, sharp 6.
WholeToneTable == [d \in 1..6 |-> IF d \in {4, 5, 6} THEN 1 ELSE 0]

\* What C19 and its amendment share: degrees 1..6 the chord leaves
\* unspecified are filled from the whole-tone scale, degree 7 never is.
WholeToneFill(chordMap, scale) ==
    /\ \A d \in Unspecified(chordMap) \ {7} : Has(scale, d) /\ scale[d] = WholeToneTable[d]
    /\ 7 \in Unspecified(chordMap) => ~Has(scale, 7)

ScaleDegrees == (1..9) \cup {11, 13}

\* C21: every Pitch-Class Map produced by
\* expandChordSpec(parseChordSymbol(text)), and by the scale-filling step,
\* has all its keys among the scale degrees 1,2,3,4,5,6,7,8,9,11,13 and all
\* its values in {-2,-1,0,+1}, and every pitch render returns for it is an
\* integer.
C21_DegreesInRenderTable ==
    op \in {"chordTextToMidiNotes", "getScaleForChord"} =>
        /\ DOMAIN res.chordMap \subseteq ScaleDegrees
        /\ \A d \in DOMAIN res.chordMap : res.chordMap[d] \in -2..1
        /\ \A i \in 1..Len(res.rendered) : res.rendered[i] # NaN

\* C22: a chord specification is immutable after parse: expandChordSpec,
\* render, addBass and getScaleForChord leave every field of the
\* specification returned by parseChordSymbol (letter, sharp, flat, number,
\* flags, lists, bass) unchanged.
C22_SpecImmutableAfterParse ==
    op \in {"chordTextToMidiNotes", "getScaleForChord"} => res.chordSpec = Parsed(arg)

\* C23: for every input text the specification parseChordSymbol returns has
\* at most one of the flags major, minor, diminished, halfdim, augmented
\* set, and the triangle flag only when none of them is; when none is set,
\* expandChordSpec seeds the major triad {1:0, 3:0, 5:0} with a flat default
\* seventh, so a bare number 7 adds degree 7 flat.
C23_OneQualityFlag ==
    op = "parseChordSymbol" =>
        LET p == res.chordSpec
            flags == { f \in {"major", "minor", "diminished", "halfdim", "augmented"} : p[f] }
        IN /\ Cardinality(flags) <= 1
           /\ p.triangle => flags = {}
           /\ flags = {} =>
                 /\ SeedOf(p) = [result |-> (1 :> 0) @@ (3 :> 0) @@ (5 :> 0), seventh |-> -1]
                 /\ (/\ p.number = <<"7">> /\ ~p.triangle /\ p.majoralt = <<>>
                     /\ ~p.alt /\ ~p.sixnine /\ p.sus = <<>> /\ p.add = <<>>
                     /\ p.drop = <<>> /\ p.alter = <<>>) =>
                        expandChordSpec(p).chordMap
                          = (1 :> 0) @@ (3 :> 0) @@ (5 :> 0) @@ (7 :> -1)

\* C23 witness: "Cm+7" has two quality tokens; only the first sets a flag.
C23_Witness ==
    /\ op = "parseChordSymbol"
    /\ arg = <<"C", "m", "+", "7">>
    /\ res.chordSpec.minor
    /\ ~res.chordSpec.augmented
    /\ ~res.chordSpec.major

\* Roots, with the fields the parser is to give them.
MinorRoots ==
    { [text |-> <<"C">>, letter |-> "C", sharp |-> FALSE, flat |-> FALSE],
      [text |-> <<"E", "b">>, letter |-> "E", sharp |-> FALSE, flat |-> TRUE],
      [text |-> <<"F", "#">>, letter |-> "F", sharp |-> TRUE, flat |-> FALSE] }

\* The minor synonyms (the ASCII ones).
MinorSynonyms ==
    { <<"m", "i", "n", "o", "r">>, <<"m", "i", "n">>, <<"m", "i">>, <<"m">>, <<"-">> }

\* Middle tokens, with what each is to record in the specification.
MinorMiddleTokens ==
    LET none == [alt |-> FALSE, sus |-> <<>>, add |-> <<>>, drop |-> <<>>, alter |-> <<>>]
    IN { [text |-> <<"a", "l", "t">>, effect |-> [none EXCEPT !.alt = TRUE]],
         [text |-> <<"s", "u", "s">>, effect |-> [none EXCEPT !.sus = << <<"4">> >>]],
         [text |-> <<"s", "u", "s", "2">>, effect |-> [none EXCEPT !.sus = << <<"2">> >>]],
         [text |-> <<"a", "d", "d", "9">>, effect |-> [none EXCEPT !.add = << <<"9">> >>]],
         [text |-> <<"d", "r", "o", "p", "5">>,
          effect |-> [none EXCEPT !.drop = << <<"5">> >>]],
         [text |-> <<"n", "o", "5">>, effect |-> [none EXCEPT !.drop = << <<"5">> >>]],
         [text |-> <<"b", "9">>,
          effect |-> [none EXCEPT !.alter =
                        << [sharp |-> FALSE, flat |-> TRUE, number |-> <<"9">>] >>]],
         [text |-> <<"#", "1", "1">>,
          effect |-> [none EXCEPT !.alter =
                        << [sharp |-> TRUE, flat |-> FALSE, number |-> <<"1", "1">>] >>]] }

\* The specification of a minor chord on root r with the effect e of one
\* middle token recorded.
MinorSpecWith(r, e) ==
    [EmptySpec EXCEPT !.letter = r.letter, !.sharp = r.sharp, !.flat = r.flat,
                      !.minor = TRUE, !.alt = e.alt, !.sus = e.sus, !.add = e.add,
                      !.drop = e.drop, !.alter = e.alter]

\* C24: for every root, every minor synonym q (minor, min, mi, m, -) and
\* every middle token t (alt, sus, add + number, drop/no + number,
\* accidental + number), parseChordSymbol(root + q + t) returns a
\* specification with the minor flag set, no other quality flag, and the
\* effect of t recorded; in particular "Cmadd9" parses to minor with add
\* list [9] and "Cmalt" to minor with the alt flag.
C24_MinorSynonymThenMiddle ==
    op = "parseChordSymbol" =>
        \A r \in MinorRoots, q \in MinorSynonyms, t \in MinorMiddleTokens :
            arg = r.text \o q \o t.text => res.chordSpec = MinorSpecWith(r, t.effect)

\* The notes the loop of repitchEarlierNotesInTieChain assigns to
\* currentNote, in order, when it starts at currentNote.
RECURSIVE TieChainWalk(_, _)
TieChainWalk(ns, currentNote) ==
    IF ns[currentNote].tieBack = 0 THEN <<>>
    ELSE <<ns[currentNote].tieBack>> \o TieChainWalk(ns, ns[currentNote].tieBack)

\* The members of the tie chain that ends in note id.
ChainOf(id) == { x \in DOMAIN notes : ChainLast(x) = id }

\* The loop over the segments: the body runs for segment 1, 2, ... in turn,
\* and the pass is over after the last one.
SegmentsInTurn ==
    /\ pc = "segment" => (pc' = "notes" /\ segment' = segment)
    /\ (pc = "notes" /\ pc' = "notes") => segment' = segment
    /\ (pc = "notes" /\ pc' # "notes") =>
          IF segment < NumSegments THEN pc' = "segment" /\ segment' = segment + 1
          ELSE pc' = "done"
    /\ pc # "done"

\* One turn of the note loop: the walk from the last note of a chain of n
\* notes takes n - 1 steps over the n - 1 earlier notes, each once; they
\* end with the pitch fields of the note the walk started from, which keeps
\* what its snap gave it, and no other note is written.
TieWalkWritesEarlierNotesOnce ==
    (pc = "notes" /\ visited' = visited + 1) =>
        LET id == VisitOrder(score, segment, 0)[visited + 1]
            walk == IF isNoteTheLastNoteInTieChain(notes[id]) THEN TieChainWalk(notes, id)
                    ELSE <<>>
            written == { walk[k] : k \in 1..Len(walk) }
        IN /\ isNoteTheLastNoteInTieChain(notes[id]) =>
                 /\ Len(walk) = Cardinality(ChainOf(id)) - 1
                 /\ Cardinality(written) = Len(walk)
                 /\ written = ChainOf(id) \ {id}
           /\ notes'[id].pitch = snaps'[Len(snaps')].after
           /\ \A x \in written :
                 /\ notes'[x].pitch = notes'[id].pitch
                 /\ notes'[x].tpc1 = notes'[id].tpc1
                 /\ notes'[x].tpc2 = notes'[id].tpc2
           /\ \A x \in DOMAIN notes \ (written \cup {id}) : notes'[x] = notes[x]
           /\ \A x \in DOMAIN notes :
                 notes'[x].tieBack = notes[x].tieBack
                   /\ notes'[x].tieForward = notes[x].tieForward

\* C25: the retuning pass terminates on every finite score: each segment is
\* visited once, and each call of repitchEarlierNotesInTieChain on the last
\* note of an acyclic tie chain of n notes ends after exactly n - 1 backward
\* steps, writing each earlier note once and never writing the note it
\* started from or any note outside the chain.
C25_PassTerminates ==
    /\ <>(pc = "done")
    /\ [][SegmentsInTurn /\ TieWalkWritesEarlierNotesOnce]_vars

\* C25 witness: the pass is over on a score with a tie chain of three notes
\* whose last note was moved by its snap; the two earlier notes have its
\* pitch.
C25_Witness ==
    /\ pc = "done"
    /\ \E k \in 1..Len(snaps) :
          LET id == snaps[k].id
          IN /\ isNoteTheLastNoteInTieChain(notes[id])
             /\ Len(TieChainWalk(notes, id)) = 2
             /\ snaps[k].after # snaps[k].before
             /\ \A x \in ChainOf(id) : notes[x].pitch = snaps[k].after

\* The pitch classes of a pitch sequence.
PitchClassesOf(q) == { q[i] % 12 : i \in 1..Len(q) }

\* A note object of pitch p as the host spells it.
HostNote(p) ==
    [pitch |-> p, tpc1 |-> HostTpc(p), tpc2 |-> HostTpc(p), tieBack |-> 0, tieForward |-> 0]

\* The chord's own map and the default scale chosen for it both have
\* degree 8, with different alterations.
EighthDegreeReplaced(text) ==
    /\ Has(Expanded(text).chordMap, 8)
    /\ Has(scaleToUse(Expanded(text).chordSpec), 8)
    /\ Expanded(text).chordMap[8] # scaleToUse(Expanded(text).chordSpec)[8]

\* A note on a pitch class of target set a keeps its pitch when snapped
\* against the chord on a strong beat, and against scale target b when its
\* pitch class is in b.
ChordTonesStay(text, a, b) ==
    \A p \in 55..66 :
        p % 12 \in PitchClassesOf(a) =>
            /\ snapNoteToNearestChordTone(HostNote(p), text, <<>>).note.pitch = p
            /\ p % 12 \in PitchClassesOf(b) =>
                  snapNoteToNearestScaleTone(HostNote(p), b).pitch = p

\* C26: for every chord symbol text, with the same remembered root, the set
\* of pitch classes of the strong-beat target (chordTextToMidiNotes raw) is
\* a subset of the set of pitch classes of the weak-beat target
\* (getScaleForChord); hence a note whose pitch class is a chord tone of its
\* governing chord keeps its pitch when snapped, on a strong beat and on a
\* weak beat alike.
C26_ChordTargetWithinScaleTarget ==
    op = "getScaleForChord" =>
        LET strong == chordTextToMidiNotes(arg, TRUE, <<>>).midiNotes
        IN /\ PitchClassesOf(strong) \subseteq PitchClassesOf(res.midiNotes)
           /\ ChordTonesStay(arg, strong, res.midiNotes)

\* C26 as amended: the same, for every chord symbol text but those whose
\* own degree 8 the default scale's degree 8 replaces; with those, every
\* chord tone still in the scale target keeps its pitch on a weak beat.
C26_ChordTargetWithinScaleUnlessEighthReplaced ==
    op = "getScaleForChord" =>
        LET strong == chordTextToMidiNotes(arg, TRUE, <<>>).midiNotes
        IN /\ ~EighthDegreeReplaced(arg) =>
                 PitchClassesOf(strong) \subseteq PitchClassesOf(res.midiNotes)
           /\ ChordTonesStay(arg, strong, res.midiNotes)

\* C26 witness: the scale of "Cm7/E": the bass E, foreign to C minor, is in
\* both targets.
C26_Witness ==
    /\ op = "getScaleForChord"
    /\ arg = <<"C", "m", "7", "/", "E">>
    /\ res.midiNotes = <<40, 48, 50, 51, 53, 55, 56, 58>>
    /\ chordTextToMidiNotes(arg, TRUE, <<>>).midiNotes = <<40, 48, 51, 55, 58>>

\* Every chord symbol of the score other than "N.C." has a root letter.
EveryChordRooted(sc) ==
    \A seg \in 1..NumSegments : \A k \in 1..Len(sc.annot[seg]) :
        (sc.annot[seg][k].name = "Harmony"
           /\ sc.annot[seg][k].text # <<"N", ".", "C", ".">>) =>
              Parsed(sc.annot[seg][k].text).letter # ""

\* C27: the retuning pass is idempotent on pitches: for every score in which
\* every chord symbol other than "N.C." has a root letter, running the pass
\* on the result of a first pass changes the pitch of no note (when the
\* later pass is over every note has the pitch the pass before left it).
C27_PassIdempotentOnPitches ==
    (pc = "done" /\ op = "onRun" /\ EveryChordRooted(score)) =>
        \A id \in DOMAIN notes : notes[id].pitch = res[id].pitch

\* C27 witness: a second pass is over on a score with a chord symbol and a
\* tie chain; the first pass had moved a note, and an earlier member of the
\* chain was snapped away and brought back during the second.
C27_Witness ==
    /\ pc = "done"
    /\ op = "onRun"
    /\ EveryChordRooted(score)
    /\ \E id \in DOMAIN notes : res[id].pitch # Original(id)
    /\ \E k \in 1..Len(snaps) :
          /\ notes[snaps[k].id].tieForward # 0
          /\ snaps[k].after # snaps[k].before
    /\ \A id \in DOMAIN notes : notes[id].pitch = res[id].pitch

\* The record of the snap call made for note id in this pass.
SnapOf(id) == snaps[CHOOSE k \in 1..Len(snaps) : snaps[k].id = id]

\* What snapping the original pitch of note id gives against the target set
\* of its own governing chord and beat class (the original pitch when it
\* has no governing chord); the root render remembered is the one at its
\* snap call.
SnappedOriginal(id) ==
    IF GoverningAt(score, SegOf(id)) = null THEN Original(id)
    ELSE SnapByBeat(InitialNotes(score)[id], GoverningAt(score, SegOf(id)),
                    OnBeat(score, SegOf(id)), SnapOf(id).remembered).note.pitch

\* C28: the final pitch of every member of a tie chain is decided by the
\* chain's last note alone: it equals the result of snapping the last
\* note's original pitch against the target set chosen by the last note's
\* own governing chord and beat class (the original pitch when the last note
\* has no governing chord), whatever chords and beat classes the earlier
\* members fall under and whatever they were snapped to before.
C28_ChainPitchFromLastNote ==
    pc = "done" =>
        \A id \in DOMAIN notes :
            (notes[id].tieBack # 0 \/ notes[id].tieForward # 0) =>
                notes[id].pitch = SnappedOriginal(ChainLast(id))

\* C28 witness: the pass is over; an earlier member of a tie chain was
\* snapped, under its own chord and beat class, to a pitch other than the
\* one it ends with, which is the snapped original pitch of the last note.
C28_Witness ==
    /\ pc = "done"
    /\ \E id \in DOMAIN notes :
          /\ notes[id].tieForward # 0
          /\ SnapOf(id).after # notes[id].pitch
          /\ SnapOf(id).chord # SnapOf(ChainLast(id)).chord
          /\ notes[id].pitch # Original(id)
          /\ notes[id].pitch = SnappedOriginal(ChainLast(id))

\* The last chord symbol with a root letter among the first n texts of the
\* harmony timeline h ("N.C." is no chord symbol), null if there is none.
RECURSIVE NearestRooted(_, _)
NearestRooted(h, n) ==
    IF n = 0 THEN null
    ELSE IF h[n] # <<"N", ".", "C", ".">> /\ Parsed(h[n]).letter # "" THEN h[n]
    ELSE NearestRooted(h, n - 1)

\* The chord symbol with a root letter that precedes the governing symbol of
\* segment seg in the harmony timeline.
PrecedingRooted(sc, seg) ==
    LET h == HarmonyTexts(sc, seg)
    IN NearestRooted(h, Len(h) - 1)

\* The target list of a snap made with the root of symbol text remembered.
TargetsOnRootOf(sn, text) ==
    IF sn.strong THEN chordTextToMidiNotes(sn.chord, TRUE, <<Parsed(text)>>).midiNotes
    ELSE getScaleForChord(sn.chord, <<Parsed(text)>>).midiNotes

\* C29: in a retuning pass a note governed by a chord symbol without a root
\* letter is snapped to targets built on the root of the nearest preceding
\* chord symbol of the harmony timeline that has a root letter, also when
\* that symbol governs no note or an "N.C." stands between the two.
C29_RootlessUsesNearestRootedSymbol ==
    \A k \in 1..Len(snaps) :
        LET sn == snaps[k]
            rooted == PrecedingRooted(score, SegOf(sn.id))
        IN (sn.chord # null /\ Parsed(sn.chord).letter = "" /\ rooted # null) =>
               sn.tones = TargetsOnRootOf(sn, rooted)


====
